---- MODULE Spec2Model ----
(***************************************************************************)
(* Frontier store of scripts/1_crawl.py: the urls table, the claim         *)
(* transaction of get_pending_chunk, mark_status / handle_failure,         *)
(* add_urls_to_db, the init_db maintenance passes and the runner (main:    *)
(* init_db, map phase, scrape phase) that drives them.                     *)
(*                                                                         *)
(* Granularity: every SQL statement is one step (all connections are       *)
(* opened with isolation_level=None, i.e. autocommit), except the claim,   *)
(* which runs between BEGIN IMMEDIATE and COMMIT under the write lock, and *)
(* init_db, whose passes are taken as one step.  Time is counted in hours. *)
(***************************************************************************)
EXTENDS Integers, Sequences, FiniteSets, TLC

VARIABLES urls, cache, now, lock, pc, cfg, lim, sel, held, hf, todo, up, cnt, src, quota,
          run

vars == <<urls, cache, now, lock, pc, cfg, lim, sel, held, hf, todo, up, cnt, src, quota,
          run>>

\* ---------------------------------------------------------------- bounds
MaxTime == 3
MaxPriority == 8
MaxChunk == 2
MaxItems == 1
MaxTarget == 2
MaxCandidates == 3

\* ------------------------------------------------------ program constants
MAX_RETRIES == 3
PROCESSING_STALE_HOURS == 2
MIN_RELEVANCE_SCORE == 6

\* runner 1 and runner 2: two processes running main on the same store
Runners == {1, 2}
NoRunner == 0
NoTime == -1
Priorities == MIN_RELEVANCE_SCORE..MaxPriority

\* ------------------------------------------------------------------ URLs
\* A URL is its parsed form: the path segments, the number of trailing
\* slashes, the query keys in order, and whether it carries a fragment and
\* an upper-case scheme/host.
PostSegs == {"post-5"}
PageDashSegs == {"page-2"}
DigitSegs == {"2"}
ThreadSegs == {"threads", "topic", "topics"}
TRACKING_QUERY_KEYS == {"utm_source", "utm_medium", "utm_campaign", "utm_term",
                        "utm_content", "fbclid", "gclid", "ref", "source"}
PageKeys == {"page", "p"}

Url(path, slash, query, frag, upper) ==
    [path |-> path, slash |-> slash, query |-> query, frag |-> frag, upper |-> upper]

Front(s) == SubSeq(s, 1, Len(s) - 1)

\* re.sub(r"/<seg>/?$", "", path) for a one-segment suffix pattern
StripLast(u, segs) ==
    IF /\ u.slash <= 1
       /\ Len(u.path) >= 1
       /\ u.path[Len(u.path)] \in segs
    THEN [u EXCEPT !.path = Front(u.path), !.slash = 0]
    ELSE u

\* re.sub(r"/page/\d+/?$", "", path)
StripPageSlash(u) ==
    IF /\ u.slash <= 1
       /\ Len(u.path) >= 2
       /\ u.path[Len(u.path)] \in DigitSegs
       /\ u.path[Len(u.path) - 1] = "page"
    THEN [u EXCEPT !.path = SubSeq(u.path, 1, Len(u.path) - 2), !.slash = 0]
    ELSE u

StripSuffixes(u) ==
    StripPageSlash(StripLast(StripLast(StripLast(u, PostSegs), {"latest"}), PageDashSegs))

\* "/threads/" in normalized_path or "/topic/" in ... or "/topics/" in ...
IsThreadPath(u) ==
    \E i \in 1..Len(u.path) :
        /\ u.path[i] \in ThreadSegs
        /\ (i < Len(u.path) \/ u.slash >= 1)

RECURSIVE FilterKeys(_, _)
FilterKeys(q, drop) ==
    IF q = <<>> THEN <<>>
    ELSE IF Head(q) \in drop THEN FilterKeys(Tail(q), drop)
         ELSE <<Head(q)>> \o FilterKeys(Tail(q), drop)

SeqRange(s) == {s[i] : i \in 1..Len(s)}

KeptQuery(u) ==
    LET q1 == FilterKeys(u.query, TRACKING_QUERY_KEYS)
        q2 == IF IsThreadPath(u) THEN FilterKeys(q1, PageKeys) ELSE q1
    IN IF "m" \in SeqRange(q2) THEN FilterKeys(q2, PageKeys) ELSE q2

_canonicalize_url(url) ==
    LET s == StripSuffixes(url)
    IN Url(s.path,
           IF s.path = <<>> /\ s.slash = 1 THEN 1 ELSE 0,
           KeptQuery([s EXCEPT !.query = url.query]),
           FALSE,
           FALSE)

IsCanonical(url) == _canonicalize_url(url) = url

\* ------------------------------------------------------------- the table
\* urls is a function from the stored url (PRIMARY KEY) to its row.
Statuses == {"PENDING", "PROCESSING", "COMPLETED", "FAILED"}

Row(source_name, status, discovered_at, processed_at, retry_count, priority) ==
    [source_name |-> source_name, status |-> status, discovered_at |-> discovered_at,
     processed_at |-> processed_at, retry_count |-> retry_count, priority |-> priority]

NoRow == [status |-> "ABSENT"]

Lookup(tbl, url) == IF url \in DOMAIN tbl THEN tbl[url] ELSE NoRow

\* UPDATE urls SET status = 'FAILED', retry_count = MAX_RETRIES,
\*                 processed_at = CURRENT_TIMESTAMP WHERE url = ?
ForceFailed(row, t) ==
    [row EXCEPT !.status = "FAILED", !.retry_count = MAX_RETRIES, !.processed_at = t]

\* the guard of the three filter passes
NeedsForce(row) == row.status # "FAILED" \/ row.retry_count < MAX_RETRIES

\* ---------------------------------------------------------- configuration
\* The registry holds the configured sources "s1" and "s2"; "d1" is a source
\* discovered at run time, which is in no registry.  A configuration is what
\* load_source_registry read at the start of a run.
SeedUrl == Url(<<"threads", "t1">>, 1, <<>>, FALSE, FALSE)
ConfiguredNames == {"s1", "s2"}
SourceNames == {"s1", "s2", "d1"}

Config(enabled, hard_deny_tokens, allow_seed_fallback) ==
    [enabled |-> enabled, hard_deny_tokens |-> hard_deny_tokens,
     allow_seed_fallback |-> allow_seed_fallback, disabled |-> {}]

Permissive == Config(TRUE, {}, TRUE)
Strict == Config(TRUE, {"post-5"}, FALSE)
AllDisabled == Config(FALSE, {}, TRUE)
DenyThread == Config(TRUE, {"t2"}, TRUE)
\* the registry with "enabled": false on the second source
SecondDisabled == [Permissive EXCEPT !.disabled = {"s2"}]
Configs == {Permissive, Strict, AllDisabled}

\* token.lower() in url_lower, at the granularity of path segments
ContainsToken(url, tokens) == \E i \in 1..Len(url.path) : url.path[i] \in tokens

\* --------------------------------------------------------- status ranking
\* a ranking in which COMPLETED outranks every other status
_status_priority_completed_first(status) ==
    CASE status = "COMPLETED" -> 5
      [] status = "PENDING" -> 4
      [] status = "PROCESSING" -> 3
      [] status = "FAILED" -> 2
      [] OTHER -> 0

_status_priority(status) ==
    CASE status = "PENDING" -> 4
      [] status = "PROCESSING" -> 3
      [] status = "FAILED" -> 2
      [] status = "COMPLETED" -> 1
      [] OTHER -> 0

Max(a, b) == IF a >= b THEN a ELSE b
Min(a, b) == IF a <= b THEN a ELSE b

\* the first row read for a canonical URL is kept as it is
MergeRowKeepFirst(existing, candidate) == existing

\* one step of the aggregation loop: candidate merged into existing
MergeRow(existing, candidate) ==
    [source_name |-> existing.source_name,
     status |-> IF _status_priority(candidate.status) > _status_priority(existing.status)
                THEN candidate.status ELSE existing.status,
     discovered_at |-> IF candidate.discovered_at < existing.discovered_at
                       THEN candidate.discovered_at ELSE existing.discovered_at,
     processed_at |-> IF candidate.processed_at # NoTime
                         /\ (existing.processed_at = NoTime
                             \/ candidate.processed_at > existing.processed_at)
                      THEN candidate.processed_at ELSE existing.processed_at,
     retry_count |-> Max(existing.retry_count, candidate.retry_count),
     priority |-> Max(existing.priority, candidate.priority)]

\* the rows are aggregated in the order the SELECT returns them
RECURSIVE Aggregate(_, _, _)
Aggregate(tbl, order, acc) ==
    IF order = <<>> THEN acc
    ELSE LET url == Head(order)
             canonical == _canonicalize_url(url)
             merged == IF canonical \in DOMAIN acc
                       THEN MergeRow(acc[canonical], tbl[url])
                       ELSE tbl[url]
         IN Aggregate(tbl, Tail(order),
                      [k \in DOMAIN acc \cup {canonical} |->
                          IF k = canonical THEN merged ELSE acc[k]])

EmptyTable == [k \in {} |-> NoRow]

Orders(S) == {o \in [1..Cardinality(S) -> S] : \A i, j \in DOMAIN o : i # j => o[i] # o[j]}

normalize_existing_urls(tbl, order) ==
    LET aggregated == Aggregate(tbl, order, EmptyTable)
        had_noncanonical == \E url \in DOMAIN tbl : _canonicalize_url(url) # url
        had_duplicates == Cardinality(DOMAIN aggregated) < Cardinality(DOMAIN tbl)
    IN IF ~had_noncanonical /\ ~had_duplicates THEN tbl ELSE aggregated

\* rows removed, the function's return value
NormalizeMerged(tbl, order) ==
    LET aggregated == Aggregate(tbl, order, EmptyTable)
        had_noncanonical == \E url \in DOMAIN tbl : _canonicalize_url(url) # url
        had_duplicates == Cardinality(DOMAIN aggregated) < Cardinality(DOMAIN tbl)
    IN IF ~had_noncanonical /\ ~had_duplicates THEN 0
       ELSE Cardinality(DOMAIN tbl) - Cardinality(DOMAIN aggregated)

\* the pass with COMPLETED rows left alone
apply_hard_deny_filters_keep_completed(tbl, c, t) ==
    [url \in DOMAIN tbl |->
        IF /\ tbl[url].source_name \in ConfiguredNames
           /\ ContainsToken(url, c.hard_deny_tokens)
           /\ tbl[url].status # "COMPLETED"
           /\ NeedsForce(tbl[url])
        THEN ForceFailed(tbl[url], t) ELSE tbl[url]]

apply_hard_deny_filters(tbl, c, t) ==
    [url \in DOMAIN tbl |->
        IF /\ tbl[url].source_name \in ConfiguredNames
           /\ ContainsToken(url, c.hard_deny_tokens)
           /\ NeedsForce(tbl[url])
        THEN ForceFailed(tbl[url], t) ELSE tbl[url]]

\* updated, the return value of apply_hard_deny_filters
HardDenyUpdated(tbl, c) ==
    Cardinality({url \in DOMAIN tbl :
                   /\ tbl[url].source_name \in ConfiguredNames
                   /\ ContainsToken(url, c.hard_deny_tokens)
                   /\ NeedsForce(tbl[url])})

\* {source.get("name") for source in SOURCES if _source_is_enabled(source)}
EnabledNames(c) == IF c.enabled THEN ConfiguredNames \ c.disabled ELSE {}

\* the pass applied to the rows of configured sources only
apply_disabled_source_filters_configured_only(tbl, c, t) ==
    IF EnabledNames(c) = {} THEN tbl
    ELSE [url \in DOMAIN tbl |->
            IF /\ tbl[url].source_name \in ConfiguredNames \ EnabledNames(c)
               /\ NeedsForce(tbl[url])
            THEN ForceFailed(tbl[url], t) ELSE tbl[url]]

apply_disabled_source_filters(tbl, c, t) ==
    IF EnabledNames(c) = {} THEN tbl
    ELSE [url \in DOMAIN tbl |->
            IF tbl[url].source_name \notin EnabledNames(c) /\ NeedsForce(tbl[url])
            THEN ForceFailed(tbl[url], t) ELSE tbl[url]]

\* the cached documents the disabled-source pass moves to the rejected directory
DisabledMoved(tbl, c) ==
    IF EnabledNames(c) = {} THEN {}
    ELSE {url \in DOMAIN tbl : tbl[url].source_name \notin EnabledNames(c)}

blocked_seed_urls(c) == IF c.allow_seed_fallback THEN {} ELSE {_canonicalize_url(SeedUrl)}

apply_seed_fallback_filters(tbl, c, t) ==
    [url \in DOMAIN tbl |->
        IF _canonicalize_url(url) \in blocked_seed_urls(c) /\ NeedsForce(tbl[url])
        THEN ForceFailed(tbl[url], t) ELSE tbl[url]]

\* ------------------------------------------------------------- documents
\* What a fetch returns: "good" and "edge" pass the fetch-time check, "bad" is
\* suspect, "short" is below the minimum length.  A cached file is the
\* document behind a SOURCE_URL header line; an "edge" document is one that the
\* header line tips over a classifier threshold (35 non-blank lines).
DocKinds == {"good", "edge", "bad", "short"}
SuspectAtFetch(doc) == doc = "bad"
SuspectAsFile(doc) == doc \in {"bad", "edge"}

\* the files the fetch-time classification of their body would flag
QuarantineMovedByBody(files) == {url \in DOMAIN files : SuspectAtFetch(files[url])}

\* the files quarantine_suspect_outputs moves
QuarantineMoved(files) == {url \in DOMAIN files : SuspectAsFile(files[url])}

quarantine_suspect_outputs(tbl, files, t) ==
    LET hit == {_canonicalize_url(url) : url \in QuarantineMoved(files)}
    IN [url \in DOMAIN tbl |-> IF url \in hit THEN ForceFailed(tbl[url], t) ELSE tbl[url]]

Restrict(f, S) == [x \in S |-> f[x]]

\* init_db: normalize, then the four passes, on the table and the cache
InitDbTable(tbl, files, c, order, t) ==
    LET t1 == normalize_existing_urls(tbl, order)
        t2 == apply_hard_deny_filters(t1, c, t)
        t3 == apply_disabled_source_filters(t2, c, t)
        t4 == apply_seed_fallback_filters(t3, c, t)
        f3 == Restrict(files, DOMAIN files \ DisabledMoved(t2, c))
    IN quarantine_suspect_outputs(t4, f3, t)

InitDbCache(tbl, files, c, order) ==
    LET t2 == normalize_existing_urls(tbl, order)
        f3 == Restrict(files, DOMAIN files \ DisabledMoved(t2, c))
    IN Restrict(f3, DOMAIN f3 \ QuarantineMoved(f3))

\* ------------------------------------------------------- claim selection
\* staleness without the window: every PROCESSING row counts as stale
IsStaleNoWindow(row, t) ==
    /\ row.status = "PROCESSING"

IsStale(row, t) ==
    /\ row.status = "PROCESSING"
    /\ row.processed_at # NoTime
    /\ row.processed_at < t - PROCESSING_STALE_HOURS

\* the WHERE clause without its status condition
EligibleAnyStatus(row, t) ==
    /\ row.retry_count < MAX_RETRIES

\* the WHERE clause of the claim's SELECT
Eligible(row, t) ==
    /\ row.status = "PENDING" \/ IsStale(row, t)
    /\ row.retry_count < MAX_RETRIES

EligibleUrls(tbl, t) == {url \in DOMAIN tbl : Eligible(tbl[url], t)}

\* ORDER BY priority ASC, discovered_at ASC
BeforeLowestFirst(a, b) ==
    \/ a.priority < b.priority
    \/ a.priority = b.priority /\ a.discovered_at < b.discovered_at

\* ORDER BY priority DESC, discovered_at ASC: a sorts strictly before b
Before(a, b) ==
    \/ a.priority > b.priority
    \/ a.priority = b.priority /\ a.discovered_at < b.discovered_at

\* the lists SELECT ... ORDER BY ... LIMIT n can return (ties in any order)
Selections(tbl, t, n) ==
    LET E == EligibleUrls(tbl, t)
        k == Min(n, Cardinality(E))
    IN {s \in [1..k -> E] :
          /\ \A i, j \in 1..k : i < j => s[i] # s[j] /\ ~Before(tbl[s[j]], tbl[s[i]])
          /\ \A url \in E \ SeqRange(s) : \A i \in 1..k : ~Before(tbl[url], tbl[s[i]])}

\* UPDATE urls SET status = 'PROCESSING', processed_at = CURRENT_TIMESTAMP
\*   WHERE url IN (...)
MarkProcessing(tbl, claimed, t) ==
    [url \in DOMAIN tbl |->
        IF url \in claimed
        THEN [tbl[url] EXCEPT !.status = "PROCESSING", !.processed_at = t]
        ELSE tbl[url]]

\* mark_status(url, status, increment_retry)
mark_status(tbl, url, status, increment_retry, t) ==
    [k \in DOMAIN tbl |->
        IF k = url
        THEN [tbl[k] EXCEPT !.status = status,
                            !.processed_at = t,
                            !.retry_count = IF increment_retry THEN @ + 1 ELSE @]
        ELSE tbl[k]]

\* the comparison with > in place of >=
FailureStatusLate(current_retries) ==
    IF current_retries + 1 > MAX_RETRIES THEN "FAILED" ELSE "PENDING"

\* the status handle_failure passes to mark_status, from the retry_count it read
FailureStatus(current_retries) ==
    IF current_retries + 1 >= MAX_RETRIES THEN "FAILED" ELSE "PENDING"

\* ----------------------------------------------------------------- upsert
\* the comparison with >= in place of >
should_update_priority_or_equal(existing, priority) == priority >= existing.priority

should_update_priority(existing, priority) == priority > existing.priority
should_requeue_failed(existing) ==
    existing.status = "FAILED" /\ existing.retry_count < MAX_RETRIES

\* the UPDATE issued for every existing row
UpsertWritesAlways(existing, priority) == TRUE

\* whether add_urls_to_db writes at all for the item
UpsertWrites(existing, priority) ==
    existing = NoRow \/ should_update_priority(existing, priority) \/ should_requeue_failed(existing)

\* the row the UPDATE of add_urls_to_db leaves: source_name, status and
\* priority are written from the values the SELECT read
UpsertRow(row, existing, source_name, priority) ==
    [row EXCEPT !.source_name = source_name,
                !.status = IF should_requeue_failed(existing) THEN "PENDING"
                           ELSE existing.status,
                !.priority = IF should_update_priority(existing, priority) THEN priority
                             ELSE existing.priority]

\* ------------------------------------------------------ condition quotas
\* The condition part of the registry: the tags of the configured sources and
\* the targets of the conditions.  A discovered source is built for one
\* condition and carries that tag in its own definition.
Conditions == {"ca", "cb"}
DiscoveredCondition == "ca"

Registries ==
    [condition_tags : [ConfiguredNames -> SUBSET Conditions],
     target_completed_pages : [Conditions -> 0..MaxTarget],
     target_cases : [Conditions -> 0..MaxTarget]]

\* _source_condition_tags(source_index.get(source_name, {}))
_source_condition_tags(reg, name) ==
    IF name \in DOMAIN reg.condition_tags THEN reg.condition_tags[name] ELSE {}

\* the tags in the definition of the source that queued a row
DefinitionTags(reg, name) ==
    IF name \in ConfiguredNames THEN reg.condition_tags[name] ELSE {DiscoveredCondition}

CompletedUrls(tbl) == {url \in DOMAIN tbl : tbl[url].status = "COMPLETED"}

\* SELECT source_name, COUNT(*) FROM urls WHERE status='COMPLETED' GROUP BY source_name
_completed_pages_by_source(tbl) ==
    [name \in {tbl[url].source_name : url \in CompletedUrls(tbl)} |->
        Cardinality({url \in CompletedUrls(tbl) : tbl[url].source_name = name})]

\* the cases in the extraction output of a page: one for a page whose accepted
\* document is on disk, no output file otherwise
ProcessedCases(files, url) == IF url \in DOMAIN files /\ files[url] = "good" THEN 1 ELSE 0

RECURSIVE SumOver(_, _)
SumOver(f, S) ==
    IF S = {} THEN 0
    ELSE LET x == CHOOSE y \in S : TRUE IN f[x] + SumOver(f, S \ {x})

_completed_cases_by_source(tbl, files) ==
    LET counted == {url \in CompletedUrls(tbl) : url \in DOMAIN files /\ files[url] = "good"}
    IN [name \in {tbl[url].source_name : url \in counted} |->
          SumOver([url \in counted |-> ProcessedCases(files, url)],
                  {url \in counted : tbl[url].source_name = name})]

get_condition_coverage(tbl, files, reg) ==
    LET source_pages == _completed_pages_by_source(tbl)
        source_cases == _completed_cases_by_source(tbl, files)
        tagged(by_source, c) == {name \in DOMAIN by_source : c \in _source_condition_tags(reg, name)}
    IN [c \in Conditions |->
          LET pages == SumOver(source_pages, tagged(source_pages, c))
              cases == SumOver(source_cases, tagged(source_cases, c))
          IN [target_completed_pages |-> reg.target_completed_pages[c],
              target_cases |-> reg.target_cases[c],
              completed_pages |-> pages,
              completed_cases |-> cases,
              pages_deficit |-> Max(0, reg.target_completed_pages[c] - pages),
              cases_deficit |-> Max(0, reg.target_cases[c] - cases)]]

SetMax(S) == CHOOSE x \in S : \A y \in S : y <= x

\* the smallest deficit over the source's tags
_source_deficit_score_min(reg, name, coverage) ==
    LET tags == _source_condition_tags(reg, name)
    IN IF tags = {} THEN 0
       ELSE -SetMax({-coverage[tag].pages_deficit : tag \in tags})

_source_deficit_score(reg, name, coverage) ==
    LET tags == _source_condition_tags(reg, name)
    IN IF tags = {} THEN 0
       ELSE SetMax({coverage[tag].pages_deficit : tag \in tags})

\* the order of the names as strings
NameRank(name) == CASE name = "d1" -> 1 [] name = "s1" -> 2 [] name = "s2" -> 3

\* the lists of statically enabled sources map_sources can pass
SourceLists == UNION {Orders(S) : S \in (SUBSET ConfiguredNames) \ {{}}}

_filter_sources_by_condition_quotas(tbl, files, reg, sources) ==
    LET coverage == get_condition_coverage(tbl, files, reg)
        keep(name) ==
            \/ _source_condition_tags(reg, name) = {}
            \/ \E tag \in _source_condition_tags(reg, name) : coverage[tag].pages_deficit > 0
        drop(name) == ~keep(name)
        score(name) == _source_deficit_score(reg, name, coverage)
        key_before(a, b) ==
            \/ score(a) > score(b)
            \/ score(a) = score(b) /\ NameRank(a) < NameRank(b)
    IN [registry |-> reg,
        sources |-> sources,
        active |-> SortSeq(SelectSeq(sources, keep), key_before),
        skipped |-> SelectSeq(sources, drop),
        coverage |-> coverage]

NoQuota == [sources |-> <<>>]

\* ------------------------------------------------------------ the runner
\* pc: "off" not running, "map" in map_sources, "add"/"addw" inside
\* add_urls_to_db (before the SELECT / before the write of one item), "idle" in
\* the scrape loop, "begin"/"locked"/"selected" inside get_pending_chunk,
\* "work" processing the claimed chunk.
RawLinks == {SeedUrl,
             Url(<<"threads", "t1", "post-5", "page-2">>, 0, <<>>, FALSE, FALSE),
             Url(<<"threads", "t2">>, 0, <<>>, FALSE, FALSE)}

\* the three keys add_urls_to_db can be handed: canonical, not canonical
\* (the canonicalization of .../post-5/page-2 is .../post-5), canonical
TKey == _canonicalize_url(SeedUrl)
TQKey == Url(<<"threads", "t1", "post-5">>, 0, <<>>, FALSE, FALSE)
UKey == Url(<<"threads", "t2">>, 0, <<>>, FALSE, FALSE)

\* what _rank_candidate_urls hands to add_urls_to_db: canonicalized links
MapLinks == {_canonicalize_url(raw) : raw \in RawLinks}

Item(url, priority) == [url |-> url, priority |-> priority]

ItemSets ==
    {S \in SUBSET {Item(url, p) : url \in MapLinks, p \in Priorities} :
        /\ S # {}
        /\ Cardinality(S) <= MaxItems
        /\ \A a, b \in S : a.url = b.url => a = b}

NoUp == [url |-> "none"]

\* What the map queries of one source did, one entry per query (the seed scan
\* and one configured query): links found of which some pass the ranking,
\* links found of which none passes ("irrelevant"), no links, or an exception
\* that is a connectivity failure, an authentication failure or something
\* else; and what the scrape-link fallback did when the queries found nothing.
QueryOutcomes == {"links", "irrelevant", "empty", "connectivity", "auth", "error"}
QueryResults == [1..1 -> QueryOutcomes] \cup [1..2 -> QueryOutcomes]
FallbackOutcomes == {"accepted", "ignored", "failed"}

\* total_raw > 0 after the map queries
TotalRaw(results) == \E i \in DOMAIN results : results[i] \in {"links", "irrelevant"}

\* total_raw == 0 and failed_calls == len(queries)
NothingMapped(results, fallback) ==
    /\ \A i \in DOMAIN results : results[i] \in {"connectivity", "auth", "error"}
    /\ fallback # "accepted"

RaisesAuthentication(results, fallback) ==
    /\ NothingMapped(results, fallback)
    /\ \A i \in DOMAIN results : results[i] = "auth"

\* map_single_source that raises nothing
RaisesNever(results, fallback) == FALSE

RaisesConnectivity(results, fallback) ==
    /\ NothingMapped(results, fallback)
    /\ ~RaisesAuthentication(results, fallback)
    /\ \A i \in DOMAIN results : results[i] = "connectivity"
NoCfg == [enabled |-> "none"]

\* what a run of main has shown so far: how far map_sources got, whether the
\* condition-coverage summary was printed, the error main caught, and what
\* discover_seed_candidates was given and selected
NoDiscovery == [selected |-> <<>>]
NoRun == [stage |-> "init", summary |-> FALSE, error |-> "none", discovery |-> NoDiscovery]
EmptyReads == [k \in {} |-> 0]

\* the sources a run maps: the enabled configured ones and, with them, the
\* discovered ones
MapNames(c) == IF c.enabled THEN SourceNames \ c.disabled ELSE {}

Init ==
    /\ urls = EmptyTable
    /\ cache = [k \in {} |-> "good"]
    /\ now = 0
    /\ lock = NoRunner
    /\ pc = [r \in Runners |-> "off"]
    /\ cfg = [r \in Runners |-> NoCfg]
    /\ lim = [r \in Runners |-> 0]
    /\ sel = [r \in Runners |-> <<>>]
    /\ held = [r \in Runners |-> {}]
    /\ hf = [r \in Runners |-> EmptyReads]
    /\ todo = [r \in Runners |-> {}]
    /\ up = [r \in Runners |-> NoUp]
    /\ cnt = [r \in Runners |-> <<0, 0>>]
    /\ src = [r \in Runners |-> "none"]
    /\ quota = [r \in Runners |-> NoQuota]
    /\ run = [r \in Runners |-> NoRun]

\* the clock advances by one hour
Tick ==
    /\ now < MaxTime
    /\ now' = now + 1
    /\ UNCHANGED <<urls, cache, lock, pc, cfg, lim, sel, held, hf, todo, up, cnt, src, quota, run>>

\* main: load_source_registry, init_db
Start(r, c, order) ==
    /\ pc[r] = "off"
    /\ lock = NoRunner
    /\ urls' = InitDbTable(urls, cache, c, order, now)
    /\ cache' = InitDbCache(urls, cache, c, order)
    /\ cfg' = [cfg EXCEPT ![r] = c]
    /\ pc' = [pc EXCEPT ![r] = "map"]
    /\ run' = [run EXCEPT ![r] = NoRun]
    /\ UNCHANGED <<now, lock, lim, sel, held, hf, todo, up, cnt, src, quota>>

\* map_sources: the statically enabled sources go through the quota filter,
\* then _print_condition_coverage_summary(coverage); quota[r] holds the
\* call's result next to the registry the run loaded
SelectSources(r, reg, sources) ==
    /\ pc[r] = "map"
    /\ cfg[r].enabled
    /\ quota[r] = NoQuota
    /\ quota' = [quota EXCEPT ![r] =
                    _filter_sources_by_condition_quotas(urls, cache, reg, sources)]
    /\ run' = [run EXCEPT ![r].summary = TRUE]
    /\ UNCHANGED <<urls, cache, now, lock, pc, cfg, lim, sel, held, hf, todo, up, cnt, src>>

\* map_single_source reaches add_urls_to_db(selected_urls, name)
AddUrlsCall(r, name, items) ==
    /\ pc[r] = "map"
    /\ name \in MapNames(cfg[r])
    /\ todo' = [todo EXCEPT ![r] = items]
    /\ src' = [src EXCEPT ![r] = name]
    /\ cnt' = [cnt EXCEPT ![r] = <<0, 0>>]
    /\ pc' = [pc EXCEPT ![r] = IF items = {} THEN "map" ELSE "add"]
    /\ UNCHANGED <<urls, cache, now, lock, cfg, lim, sel, held, hf, up, quota, run>>

AfterItem(r, item) == IF todo[r] \ {item} = {} THEN "map" ELSE "add"

\* SELECT status, retry_count, priority FROM urls WHERE url = ?
UpsertRead(r, item) ==
    /\ pc[r] = "add"
    /\ item \in todo[r]
    /\ LET existing == Lookup(urls, item.url)
       IN IF UpsertWrites(existing, item.priority)
          THEN /\ up' = [up EXCEPT ![r] = [url |-> item.url, priority |-> item.priority,
                                           existing |-> existing]]
               /\ pc' = [pc EXCEPT ![r] = "addw"]
               /\ todo' = todo
          ELSE /\ up' = up
               /\ pc' = [pc EXCEPT ![r] = AfterItem(r, item)]
               /\ todo' = [todo EXCEPT ![r] = @ \ {item}]
    /\ UNCHANGED <<urls, cache, now, lock, cfg, lim, sel, held, hf, cnt, src, quota, run>>

\* the INSERT or UPDATE of the item read
UpsertWrite(r) ==
    /\ pc[r] = "addw"
    /\ lock = NoRunner
    /\ LET u == up[r]
           item == Item(u.url, u.priority)
       IN /\ IF u.existing = NoRow
             THEN IF u.url \notin DOMAIN urls
                  THEN /\ urls' = [k \in DOMAIN urls \cup {u.url} |->
                                     IF k = u.url
                                     THEN Row(src[r], "PENDING", now, NoTime, 0, u.priority)
                                     ELSE urls[k]]
                       /\ cnt' = [cnt EXCEPT ![r] = <<@[1] + 1, @[2]>>]
                  ELSE UNCHANGED <<urls, cnt, quota>>
             ELSE /\ urls' = [k \in DOMAIN urls |->
                                IF k = u.url
                                THEN UpsertRow(urls[k], u.existing, src[r], u.priority)
                                ELSE urls[k]]
                  /\ cnt' = [cnt EXCEPT ![r] =
                               IF should_update_priority(u.existing, u.priority)
                               THEN <<@[1], @[2] + 1>> ELSE @]
          /\ todo' = [todo EXCEPT ![r] = @ \ {item}]
          /\ pc' = [pc EXCEPT ![r] = AfterItem(r, item)]
    /\ up' = [up EXCEPT ![r] = NoUp]
    /\ UNCHANGED <<cache, now, lock, cfg, lim, sel, held, hf, src, quota, run>>

\* map_sources returns; main enters scrape_phase
MapDone(r) ==
    /\ pc[r] = "map"
    /\ pc' = [pc EXCEPT ![r] = "idle"]
    /\ cfg' = [cfg EXCEPT ![r] = NoCfg]
    /\ cnt' = [cnt EXCEPT ![r] = <<0, 0>>]
    /\ src' = [src EXCEPT ![r] = "none"]
    /\ quota' = [quota EXCEPT ![r] = NoQuota]
    /\ UNCHANGED <<urls, cache, now, lock, lim, sel, held, hf, todo, up, run>>

\* get_pending_chunk(chunk_size) is called
ClaimCall(r, n) ==
    /\ pc[r] = "idle"
    /\ lim' = [lim EXCEPT ![r] = n]
    /\ sel' = [sel EXCEPT ![r] = <<>>]
    /\ pc' = [pc EXCEPT ![r] = "begin"]
    /\ UNCHANGED <<urls, cache, now, lock, cfg, held, hf, todo, up, cnt, src, quota, run>>

\* a plain BEGIN (deferred): no lock is taken before the SELECT
BeginDeferred(r) ==
    /\ lock' = lock

\* conn.execute('BEGIN IMMEDIATE'): takes the write lock, waits while it is held
BeginImmediate(r) ==
    /\ lock = NoRunner
    /\ lock' = r

ClaimBegin(r) ==
    /\ pc[r] = "begin"
    /\ BeginImmediate(r)
    /\ pc' = [pc EXCEPT ![r] = "locked"]
    /\ UNCHANGED <<urls, cache, now, cfg, lim, sel, held, hf, todo, up, cnt, src, quota, run>>

\* the SELECT of the claim
ClaimSelect(r, s) ==
    /\ pc[r] = "locked"
    /\ s \in Selections(urls, now, lim[r])
    /\ sel' = [sel EXCEPT ![r] = s]
    /\ pc' = [pc EXCEPT ![r] = "selected"]
    /\ UNCHANGED <<urls, cache, now, lock, cfg, lim, held, hf, todo, up, cnt, src, quota, run>>

\* the UPDATE of the claim and COMMIT; scrape_phase ends on an empty list
ClaimCommit(r) ==
    /\ pc[r] = "selected"
    /\ urls' = MarkProcessing(urls, SeqRange(sel[r]), now)
    /\ lock' = IF lock = r THEN NoRunner ELSE lock
    /\ held' = [held EXCEPT ![r] = SeqRange(sel[r])]
    /\ pc' = [pc EXCEPT ![r] = IF sel[r] = <<>> THEN "off" ELSE "work"]
    /\ sel' = [sel EXCEPT ![r] = <<>>]
    /\ lim' = [lim EXCEPT ![r] = 0]
    /\ UNCHANGED <<cache, now, cfg, hf, todo, up, cnt, src, quota, run>>

\* ROLLBACK that leaves the writes of the transaction in place
RollbackKeepsWrites(before, written) == written

\* conn.execute('ROLLBACK'): the table is what it was at BEGIN, whatever the
\* transaction has written
Rollback(before, written) == before

\* an exception after BEGIN, in the SELECT or in the UPDATE of the selected
\* rows: ROLLBACK, the connection is closed and the error propagates out of
\* scrape_phase and main
ClaimError(r) ==
    /\ pc[r] \in {"locked", "selected"}
    /\ urls' = Rollback(urls, IF pc[r] = "selected"
                              THEN MarkProcessing(urls, SeqRange(sel[r]), now)
                              ELSE urls)
    /\ lock' = IF lock = r THEN NoRunner ELSE lock
    /\ sel' = [sel EXCEPT ![r] = <<>>]
    /\ lim' = [lim EXCEPT ![r] = 0]
    /\ pc' = [pc EXCEPT ![r] = "off"]
    /\ run' = [run EXCEPT ![r].error = "store"]
    /\ UNCHANGED <<cache, now, cfg, held, hf, todo, up, cnt, src, quota>>

AfterUrl(r, url) == IF held[r] \ {url} = {} THEN "idle" ELSE "work"

\* process_chunk: the cached file is there and is not suspect
ProcessCached(r, url) ==
    /\ pc[r] = "work"
    /\ url \in held[r] \ DOMAIN hf[r]
    /\ url \in DOMAIN cache
    /\ ~SuspectAsFile(cache[url])
    /\ lock = NoRunner
    /\ urls' = mark_status(urls, url, "COMPLETED", FALSE, now)
    /\ held' = [held EXCEPT ![r] = @ \ {url}]
    /\ pc' = [pc EXCEPT ![r] = AfterUrl(r, url)]
    /\ UNCHANGED <<cache, now, lock, cfg, lim, sel, hf, todo, up, cnt, src, quota, run>>

\* whether process_chunk accepts the fetched document
Accepted(doc) == doc \in {"good", "edge"} /\ ~SuspectAtFetch(doc)

\* process_chunk: a suspect cached file is moved away, the page is fetched;
\* an accepted document is written and the row marked COMPLETED, otherwise
\* handle_failure reads the retry_count ("error" is a fetch exception)
Fetch(r, url, doc) ==
    /\ pc[r] = "work"
    /\ url \in held[r] \ DOMAIN hf[r]
    /\ url \in DOMAIN cache => SuspectAsFile(cache[url])
    /\ IF Accepted(doc)
       THEN /\ lock = NoRunner
            /\ cache' = [k \in DOMAIN cache \cup {url} |-> IF k = url THEN doc ELSE cache[k]]
            /\ urls' = mark_status(urls, url, "COMPLETED", FALSE, now)
            /\ held' = [held EXCEPT ![r] = @ \ {url}]
            /\ pc' = [pc EXCEPT ![r] = AfterUrl(r, url)]
            /\ hf' = hf
       ELSE /\ cache' = Restrict(cache, DOMAIN cache \ {url})
            /\ hf' = [hf EXCEPT ![r] =
                        [k \in DOMAIN @ \cup {url} |->
                            IF k = url
                            THEN (IF url \in DOMAIN urls THEN urls[url].retry_count ELSE 0)
                            ELSE @[k]]]
            /\ UNCHANGED <<urls, held, pc, quota>>
    /\ UNCHANGED <<now, lock, cfg, lim, sel, todo, up, cnt, src, quota, run>>

\* handle_failure: mark_status(url, FAILED or PENDING, increment_retry=True)
HandleFailureWrite(r, url) ==
    /\ pc[r] = "work"
    /\ url \in DOMAIN hf[r]
    /\ lock = NoRunner
    /\ urls' = mark_status(urls, url, FailureStatus(hf[r][url]), TRUE, now)
    /\ hf' = [hf EXCEPT ![r] = Restrict(@, DOMAIN @ \ {url})]
    /\ held' = [held EXCEPT ![r] = @ \ {url}]
    /\ pc' = [pc EXCEPT ![r] = AfterUrl(r, url)]
    /\ UNCHANGED <<cache, now, lock, cfg, lim, sel, todo, up, cnt, src, quota, run>>

\* the process dies or is stopped; an open transaction is rolled back
Crash(r) ==
    /\ pc[r] \notin {"off", "locked", "selected"}
    /\ pc' = [pc EXCEPT ![r] = "off"]
    /\ held' = [held EXCEPT ![r] = {}]
    /\ hf' = [hf EXCEPT ![r] = EmptyReads]
    /\ todo' = [todo EXCEPT ![r] = {}]
    /\ up' = [up EXCEPT ![r] = NoUp]
    /\ cfg' = [cfg EXCEPT ![r] = NoCfg]
    /\ cnt' = [cnt EXCEPT ![r] = <<0, 0>>]
    /\ src' = [src EXCEPT ![r] = "none"]
    /\ lim' = [lim EXCEPT ![r] = 0]
    /\ quota' = [quota EXCEPT ![r] = NoQuota]
    /\ run' = [run EXCEPT ![r] = NoRun]
    /\ UNCHANGED <<urls, cache, now, lock, sel>>

\* main catches the error the map phase let through, prints it and returns;
\* scrape_phase is not entered
RunAborts(r, error) ==
    /\ pc[r] = "map"
    /\ pc' = [pc EXCEPT ![r] = "off"]
    /\ held' = [held EXCEPT ![r] = {}]
    /\ hf' = [hf EXCEPT ![r] = EmptyReads]
    /\ todo' = [todo EXCEPT ![r] = {}]
    /\ up' = [up EXCEPT ![r] = NoUp]
    /\ cfg' = [cfg EXCEPT ![r] = NoCfg]
    /\ cnt' = [cnt EXCEPT ![r] = <<0, 0>>]
    /\ src' = [src EXCEPT ![r] = "none"]
    /\ lim' = [lim EXCEPT ![r] = 0]
    /\ quota' = [quota EXCEPT ![r] = NoQuota]
    /\ run' = [run EXCEPT ![r].error = error]
    /\ UNCHANGED <<urls, cache, now, lock, sel>>

\* map_single_source: the map queries, the scrape-link fallback when they
\* found nothing, then either an error that ends the run or add_urls_to_db
MapSingleSource(r, name, results, fallback, items) ==
    /\ TotalRaw(results) => fallback = "ignored"
    /\ IF RaisesAuthentication(results, fallback)
       THEN RunAborts(r, "auth")
       ELSE IF RaisesConnectivity(results, fallback)
            THEN RunAborts(r, "connectivity")
            ELSE AddUrlsCall(r, name, items)

\* the scrape-link fallback: scrape_links_with_retry failed, or the set of
\* links of the page that pass _rank_candidate_urls
MIN_FALLBACK_HIGH_SIGNAL_LINKS == 3
Rankable(c) == {url \in MapLinks : ~ContainsToken(url, c.hard_deny_tokens)}
Scrapes(c) == {[ok |-> FALSE, links |-> {}]}
              \cup {[ok |-> TRUE, links |-> links] : links \in SUBSET Rankable(c)}
FallbackOutcome(scrape) ==
    IF ~scrape.ok THEN "failed"
    ELSE IF Cardinality(scrape.links) >= MIN_FALLBACK_HIGH_SIGNAL_LINKS THEN "accepted"
    ELSE "ignored"

\* the score _score_url gives the seed of a source: below the threshold or at it
SeedScores == {0, MIN_RELEVANCE_SCORE}

\* selected_urls of map_single_source: the ranking of discovered (the seed,
\* the links of the map queries, the accepted fallback links) within a budget
\* that holds them all; when nothing ranks, the canonical seed if the source
\* allows the seed fallback
selected_urls(c, results, scrape, seed_score) ==
    LET seed == IF seed_score >= MIN_RELEVANCE_SCORE
                THEN {Item(_canonicalize_url(SeedUrl), seed_score)} ELSE {}
        mapped == IF \E i \in DOMAIN results : results[i] = "links"
                  THEN {Item(UKey, MIN_RELEVANCE_SCORE)} \ 
                       {Item(url, MIN_RELEVANCE_SCORE) : url \in MapLinks \ Rankable(c)}
                  ELSE {}
        fallback == IF ~TotalRaw(results) /\ FallbackOutcome(scrape) = "accepted"
                    THEN {Item(url, MIN_RELEVANCE_SCORE) :
                             url \in scrape.links \ {_canonicalize_url(SeedUrl)}}
                    ELSE {}
        ranked == seed \cup mapped \cup fallback
    IN IF ranked # {} THEN ranked
       ELSE IF c.allow_seed_fallback
            THEN {Item(_canonicalize_url(SeedUrl), MIN_RELEVANCE_SCORE)}
            ELSE {}

\* map_single_source with its selection computed from what the service returned
MapSource(r, name, results, scrape, seed_score) ==
    /\ pc[r] = "map"
    /\ scrape \in Scrapes(cfg[r])
    /\ seed_score < MIN_RELEVANCE_SCORE => _canonicalize_url(SeedUrl) \notin scrape.links
    /\ MapSingleSource(r, name, results,
                       IF TotalRaw(results) THEN "ignored" ELSE FallbackOutcome(scrape),
                       selected_urls(cfg[r], results, scrape, seed_score))

\* what app.map(probe_url, limit=1) did in the preflight: it returned, or
\* raised an error whose text looks like an authentication failure, a
\* connectivity failure, or something else
PreflightOutcomes == {"ok", "auth", "connectivity", "error"}

\* preflight_firecrawl_connectivity: nothing is probed without an enabled
\* source; an authentication-like error is raised as such, any other error
\* as a connectivity error
Preflight(r, outcome) ==
    /\ pc[r] = "map"
    /\ run[r].stage = "init"
    /\ IF cfg[r].enabled /\ outcome = "auth"
       THEN RunAborts(r, "auth")
       ELSE IF cfg[r].enabled /\ outcome # "ok"
            THEN RunAborts(r, "connectivity")
            ELSE /\ run' = [run EXCEPT ![r].stage = "preflight"]
                 /\ UNCHANGED <<urls, cache, now, lock, pc, cfg, lim, sel, held, hf, todo,
                                up, cnt, src, quota>>

\* what probe_source_seed_quality did for one source: links came back and the
\* source is recommended ("pass") or not ("skip"); the link scrape raised an
\* authentication error and the source is recommended on its seed score
\* ("auth_pass") or not ("auth_skip"); the link scrape raised a network-like
\* error ("connectivity")
ProbeOutcomes == {"pass", "skip", "auth_pass", "auth_skip", "connectivity"}

\* the seed probe gate of map_sources: _probe_filter_sources over the active
\* sources; a probe without links whose errors are all network-like raises
\* FirecrawlConnectivityError, every other probe returns its metrics
ProbeFilter(r, outcomes) ==
    /\ pc[r] = "map"
    /\ run[r].stage = "preflight"
    /\ quota[r] # NoQuota
    /\ quota[r].active # <<>>
    /\ DOMAIN outcomes = SeqRange(quota[r].active)
    /\ IF \E name \in DOMAIN outcomes : outcomes[name] = "connectivity"
       THEN RunAborts(r, "connectivity")
       ELSE LET recommended(name) == outcomes[name] \in {"pass", "auth_pass"}
            IN /\ quota' = [quota EXCEPT ![r].active = SelectSeq(@, recommended)]
               /\ run' = [run EXCEPT ![r].stage = "probe"]
               /\ UNCHANGED <<urls, cache, now, lock, pc, cfg, lim, sel, held, hf, todo,
                              up, cnt, src>>

\* ---------------------------------------------------------- discovery
\* The candidate urls the discovery channels of a condition can return, after
\* canonicalization: three on host "ha", two on host "hb", and the canonical
\* seed of a configured source (on "ha"); each with the score the loop of
\* discover_seed_candidates gives it.
DISCOVERY_MAX_CANDIDATES_PER_CONDITION == MaxCandidates
DISCOVERY_MIN_CANDIDATE_SCORE == 7
CandidateOrder == <<"a1", "a2", "a3", "b1", "b2", "seed">>
Candidates == SeqRange(CandidateOrder)
CandidateHost(c) == IF c \in {"b1", "b2"} THEN "hb" ELSE "ha"
CandidateScore(c) == CASE c \in {"a1", "a2", "seed"} -> 9
                       [] c \in {"a3", "b1"} -> 7
                       [] OTHER -> 5
ConfiguredSeeds == {"seed"}

\* combined: how many times each candidate comes back from the channels
Combined == [Candidates -> 0..2]

RECURSIVE Copies(_, _)
Copies(c, n) == IF n = 0 THEN <<>> ELSE <<c>> \o Copies(c, n - 1)

RECURSIVE Listed(_, _)
Listed(combined, order) ==
    IF order = <<>> THEN <<>>
    ELSE Copies(Head(order), combined[Head(order)]) \o Listed(combined, Tail(order))

CandidateRank(c) == CHOOSE i \in DOMAIN CandidateOrder : CandidateOrder[i] = c

\* scored, after scored.sort(key=(-score, url)): the candidates at or above
\* the minimum score
Scored(combined) ==
    LET passes(c) == CandidateScore(c) >= DISCOVERY_MIN_CANDIDATE_SCORE
        before(a, b) == \/ CandidateScore(a) > CandidateScore(b)
                        \/ /\ CandidateScore(a) = CandidateScore(b)
                           /\ CandidateRank(a) < CandidateRank(b)
    IN SortSeq(SelectSeq(Listed(combined, CandidateOrder), passes), before)

host_cap == Max(2, Max(1, DISCOVERY_MAX_CANDIDATES_PER_CONDITION \div 3))

HostCount(selected, host) ==
    Cardinality({i \in DOMAIN selected : CandidateHost(selected[i]) = host})

\* the first loop without its host cap
RECURSIVE CappedPassWithoutCap(_, _)
CappedPassWithoutCap(scored, selected) ==
    IF scored = <<>> \/ Len(selected) >= DISCOVERY_MAX_CANDIDATES_PER_CONDITION
    THEN selected
    ELSE LET c == Head(scored)
         IN IF c \in SeqRange(selected) \/ c \in ConfiguredSeeds
            THEN CappedPassWithoutCap(Tail(scored), selected)
            ELSE CappedPassWithoutCap(Tail(scored), Append(selected, c))

\* the first loop over scored: no url twice, no configured seed, at most
\* host_cap urls of a host, until the maximum is reached
RECURSIVE CappedPass(_, _)
CappedPass(scored, selected) ==
    IF scored = <<>> \/ Len(selected) >= DISCOVERY_MAX_CANDIDATES_PER_CONDITION
    THEN selected
    ELSE LET c == Head(scored)
         IN IF \/ c \in SeqRange(selected)
               \/ c \in ConfiguredSeeds
               \/ HostCount(selected, CandidateHost(c)) >= host_cap
            THEN CappedPass(Tail(scored), selected)
            ELSE CappedPass(Tail(scored), Append(selected, c))

\* the second loop, entered below the maximum: the same without the host cap
RECURSIVE BackfillPass(_, _)
BackfillPass(scored, selected) ==
    IF scored = <<>> \/ Len(selected) >= DISCOVERY_MAX_CANDIDATES_PER_CONDITION
    THEN selected
    ELSE LET c == Head(scored)
         IN IF c \in SeqRange(selected) \/ c \in ConfiguredSeeds
            THEN BackfillPass(Tail(scored), selected)
            ELSE BackfillPass(Tail(scored), Append(selected, c))

\* selected_urls of discover_seed_candidates for one condition
discover_seed_candidates(combined) ==
    BackfillPass(Scored(combined), CappedPass(Scored(combined), <<>>))

\* map_sources after the seed probe gate: discovery for the conditions whose
\* pages_deficit is positive (here the condition of the discovered source)
Discover(r, combined) ==
    /\ pc[r] = "map"
    /\ run[r].stage = "probe"
    /\ quota[r] # NoQuota
    /\ run' = [run EXCEPT ![r].stage = "discovery",
                          ![r].discovery =
                             IF quota[r].coverage[DiscoveredCondition].pages_deficit > 0
                             THEN [combined |-> combined,
                                   selected |-> discover_seed_candidates(combined)]
                             ELSE NoDiscovery]
    /\ UNCHANGED <<urls, cache, now, lock, pc, cfg, lim, sel, held, hf, todo, up, cnt, src,
                   quota>>

\* map_sources returns: no enabled source, no active source after the quota
\* filter, no source left by the seed probe, or every source mapped
MapSourcesReturns(r) ==
    /\ pc[r] = "map"
    /\ \/ run[r].stage = "preflight" /\ ~cfg[r].enabled
       \/ run[r].stage = "preflight" /\ quota[r] # NoQuota /\ quota[r].active = <<>>
       \/ run[r].stage \in {"probe", "discovery"}
    /\ MapDone(r)

Next ==
    \/ Tick
    \/ \E r \in Runners, c \in Configs : \E order \in Orders(DOMAIN urls) : Start(r, c, order)
    \/ \E r \in Runners, reg \in Registries, sources \in SourceLists :
          SelectSources(r, reg, sources)
    \/ \E r \in Runners, name \in SourceNames, items \in ItemSets : AddUrlsCall(r, name, items)
    \/ \E r \in Runners, name \in SourceNames, items \in ItemSets :
          \E results \in QueryResults, fallback \in FallbackOutcomes :
             MapSingleSource(r, name, results, fallback, items)
    \/ \E r \in Runners, outcome \in PreflightOutcomes : Preflight(r, outcome)
    \/ \E r \in Runners :
          /\ quota[r] # NoQuota
          /\ \E outcomes \in [SeqRange(quota[r].active) -> ProbeOutcomes] :
                ProbeFilter(r, outcomes)
    \/ \E r \in Runners, combined \in Combined : Discover(r, combined)
    \/ \E r \in Runners : \E item \in todo[r] : UpsertRead(r, item)
    \/ \E r \in Runners : UpsertWrite(r)
    \/ \E r \in Runners : MapDone(r)
    \/ \E r \in Runners, n \in 1..MaxChunk : ClaimCall(r, n)
    \/ \E r \in Runners : ClaimBegin(r)
    \/ \E r \in Runners : \E s \in Selections(urls, now, lim[r]) : ClaimSelect(r, s)
    \/ \E r \in Runners : ClaimCommit(r)
    \/ \E r \in Runners : ClaimError(r)
    \/ \E r \in Runners : \E url \in held[r] : ProcessCached(r, url)
    \/ \E r \in Runners : \E url \in held[r], doc \in DocKinds \cup {"error"} : Fetch(r, url, doc)
    \/ \E r \in Runners : \E url \in DOMAIN hf[r] : HandleFailureWrite(r, url)
    \/ \E r \in Runners : Crash(r)

Spec == Init /\ [][Next]_vars

TypeOK ==
    /\ now \in 0..MaxTime
    /\ lock \in Runners \cup {NoRunner}
    /\ \A url \in DOMAIN urls : urls[url].status \in Statuses

\* ------------------------------------------------------------------------
\* SpecRace: runner 1 maps two canonical urls, then every runner only calls
\* get_pending_chunk; nothing is processed, and no url is upserted while a claim
\* is in flight, so that claims interleave with claims only.
NoClaimInFlight == \A r \in Runners : pc[r] \in {"off", "map", "add", "addw", "idle"}
NoUpsertInFlight == \A r \in Runners : pc[r] \notin {"add", "addw"}

NextRace ==
    \/ Tick
    \/ \E r \in Runners : \E order \in Orders(DOMAIN urls) : Start(r, Permissive, order)
    \/ /\ NoClaimInFlight
       /\ \E url \in {TKey, UKey}, p \in Priorities : AddUrlsCall(1, "s1", {Item(url, p)})
    \/ \E item \in todo[1] : UpsertRead(1, item)
    \/ UpsertWrite(1)
    \/ \E r \in Runners : MapDone(r)
    \/ /\ NoUpsertInFlight
       /\ \E r \in Runners, n \in 1..MaxChunk : ClaimCall(r, n)
    \/ \E r \in Runners : ClaimBegin(r)
    \/ \E r \in Runners : \E s \in Selections(urls, now, lim[r]) : ClaimSelect(r, s)
    \/ \E r \in Runners : ClaimCommit(r)
    \/ \E r \in Runners : ClaimError(r)

SpecRace == Init /\ [][NextRace]_vars

\* C1: a list a claim returns shares a url with the list another runner was
\* returned and still holds only if that row was PROCESSING and stale; and when
\* the table has exactly two rows, one freshly claimed by another runner and the
\* other PENDING, a claim(1) returns the other row, so that the two lists are
\* disjoint and cover both rows.
C1_TwoRowCase(r, r2) ==
    /\ lim[r] = 1
    /\ pc[r2] = "work"
    /\ Cardinality(DOMAIN urls) = 2
    /\ Cardinality(held[r2]) = 1
    /\ \A url \in DOMAIN urls :
          IF url \in held[r2]
          THEN urls[url].status = "PROCESSING" /\ ~IsStale(urls[url], now)
          ELSE urls[url].status = "PENDING" /\ urls[url].retry_count < MAX_RETRIES

C1_ClaimsDisjoint ==
    [][\A r \in Runners : ClaimCommit(r) =>
          \A r2 \in Runners \ {r} :
             /\ \A url \in held'[r] \cap held[r2] : IsStale(urls[url], now)
             /\ C1_TwoRowCase(r, r2) =>
                   /\ held'[r] \cap held[r2] = {}
                   /\ held'[r] \cup held[r2] = DOMAIN urls]_vars

\* both runners hold one row of a two-row table after claim(1) each
C1_Witness ==
    /\ \A r \in Runners : pc[r] = "work" /\ Cardinality(held[r]) = 1
    /\ Cardinality(DOMAIN urls) = 2
    /\ UNION {held[r] : r \in Runners} = DOMAIN urls
    /\ \A url \in DOMAIN urls : urls[url].status = "PROCESSING" /\ urls[url].processed_at = now

\* ------------------------------------------------------------------------
\* SpecClaim: one runner maps two urls, claims, processes, crashes and is
\* started again, while the clock advances.
NextClaim ==
    \/ Tick
    \/ \E order \in Orders(DOMAIN urls) : Start(1, Permissive, order)
    \/ \E url \in {TKey, UKey} : AddUrlsCall(1, "s1", {Item(url, MIN_RELEVANCE_SCORE)})
    \/ \E item \in todo[1] : UpsertRead(1, item)
    \/ UpsertWrite(1)
    \/ MapDone(1)
    \/ \E n \in 1..MaxChunk : ClaimCall(1, n)
    \/ ClaimBegin(1)
    \/ \E s \in Selections(urls, now, lim[1]) : ClaimSelect(1, s)
    \/ ClaimCommit(1)
    \/ ClaimError(1)
    \/ \E url \in held[1], doc \in {"good", "bad"} : Fetch(1, url, doc)
    \/ \E url \in DOMAIN hf[1] : HandleFailureWrite(1, url)
    \/ Crash(1)

SpecClaim == Init /\ [][NextClaim]_vars

\* C2: every url the SELECT of get_pending_chunk(limit) returns is, in the
\* table it reads, PENDING or PROCESSING with processed_at older than the
\* staleness window, and has retry_count < MAX_RETRIES; the list has no
\* repeats and at most limit entries; the commit leaves every returned row
\* PROCESSING with processed_at set to the current time, returns exactly the
\* selected urls, and changes no other row.
C2_ClaimSelectsEligibleAndFrames ==
    [][\A r \in Runners :
          /\ (pc[r] = "locked" /\ pc'[r] = "selected") =>
                /\ Len(sel'[r]) <= lim[r]
                /\ Cardinality(SeqRange(sel'[r])) = Len(sel'[r])
                /\ \A url \in SeqRange(sel'[r]) :
                      /\ url \in DOMAIN urls
                      /\ \/ urls[url].status = "PENDING"
                         \/ /\ urls[url].status = "PROCESSING"
                            /\ urls[url].processed_at # NoTime
                            /\ urls[url].processed_at + PROCESSING_STALE_HOURS < now
                      /\ urls[url].retry_count < MAX_RETRIES
          /\ ClaimCommit(r) =>
                /\ held'[r] = SeqRange(sel[r])
                /\ DOMAIN urls' = DOMAIN urls
                /\ \A url \in DOMAIN urls :
                      IF url \in held'[r]
                      THEN urls'[url] = [urls[url] EXCEPT !.status = "PROCESSING",
                                                          !.processed_at = now']
                      ELSE urls'[url] = urls[url]]_vars

\* a claim(1) returned one row, reclaimed or not, and left a second PENDING
\* row with retries left in the table
C2_Witness ==
    /\ pc[1] = "work"
    /\ Cardinality(held[1]) = 1
    /\ \A url \in held[1] : urls[url].status = "PROCESSING" /\ urls[url].processed_at = now
    /\ \E url \in DOMAIN urls \ held[1] :
          urls[url].status = "PENDING" /\ urls[url].retry_count < MAX_RETRIES

\* the rows no runner holds: PROCESSING rows among them were left by a runner
\* that stopped before complete or fail
Orphaned(url) == \A r \in Runners : url \notin held[r]

\* the table with every stale PROCESSING row turned into a PENDING row
C3_AsPending ==
    [url \in DOMAIN urls |->
        IF /\ urls[url].status = "PROCESSING"
           /\ urls[url].processed_at # NoTime
           /\ urls[url].processed_at + PROCESSING_STALE_HOURS < now
        THEN [urls[url] EXCEPT !.status = "PENDING"]
        ELSE urls[url]]

\* C3: the SELECT of a claim never returns a PROCESSING row that no runner
\* holds while its processed_at is within the staleness window; once
\* processed_at is older than the window the row is selected as a PENDING row
\* in its place would be: the list is one the same table with the stale rows
\* PENDING yields, and with retry_count < MAX_RETRIES and a limit as large as
\* the table the row is in the list.
C3_StaleProcessingReclaimed ==
    [][\A r \in Runners : (pc[r] = "locked" /\ pc'[r] = "selected") =>
          /\ \A url \in DOMAIN urls :
                (Orphaned(url) /\ urls[url].status = "PROCESSING") =>
                   /\ (urls[url].processed_at + PROCESSING_STALE_HOURS >= now) =>
                         url \notin SeqRange(sel'[r])
                   /\ (/\ urls[url].processed_at + PROCESSING_STALE_HOURS < now
                       /\ urls[url].retry_count < MAX_RETRIES
                       /\ lim[r] >= Cardinality(DOMAIN urls)) =>
                         url \in SeqRange(sel'[r])
          /\ \E s \in [1..Len(sel'[r]) -> DOMAIN urls] :
                /\ s = sel'[r]
                /\ \A i, j \in 1..Len(s) :
                      i < j => ~(\/ C3_AsPending[s[j]].priority > C3_AsPending[s[i]].priority
                                 \/ /\ C3_AsPending[s[j]].priority = C3_AsPending[s[i]].priority
                                    /\ C3_AsPending[s[j]].discovered_at
                                          < C3_AsPending[s[i]].discovered_at)
                /\ \A url \in DOMAIN urls \ SeqRange(s) :
                      (C3_AsPending[url].status = "PENDING"
                         /\ C3_AsPending[url].retry_count < MAX_RETRIES) =>
                      /\ Len(s) = lim[r]
                      /\ \A i \in 1..Len(s) :
                            ~(\/ C3_AsPending[url].priority > C3_AsPending[s[i]].priority
                              \/ /\ C3_AsPending[url].priority = C3_AsPending[s[i]].priority
                                 /\ C3_AsPending[url].discovered_at
                                       < C3_AsPending[s[i]].discovered_at)]_vars

\* the SELECT has returned a row left PROCESSING by a runner that stopped, now
\* older than the staleness window
C3_Witness ==
    /\ pc[1] = "selected"
    /\ \E url \in SeqRange(sel[1]) :
          /\ Orphaned(url)
          /\ urls[url].status = "PROCESSING"
          /\ urls[url].processed_at + PROCESSING_STALE_HOURS < now

\* ------------------------------------------------------------------------
\* SpecRetry: two runners on one url whose every fetch ends in a content
\* error.  Runner 1 maps the url; both claim it (a second claim of a held row
\* needs the staleness window to pass), fail it and start again, under a
\* registry that allows the seed fallback or one that does not.
NextRetry ==
    \/ Tick
    \/ \E r \in Runners, c \in {Permissive, Strict} :
          \E order \in Orders(DOMAIN urls) : Start(r, c, order)
    \/ AddUrlsCall(1, "s1", {Item(TKey, MIN_RELEVANCE_SCORE)})
    \/ \E item \in todo[1] : UpsertRead(1, item)
    \/ UpsertWrite(1)
    \/ \E r \in Runners : MapDone(r)
    \/ \E r \in Runners : ClaimCall(r, 1)
    \/ \E r \in Runners : ClaimBegin(r)
    \/ \E r \in Runners : \E s \in Selections(urls, now, lim[r]) : ClaimSelect(r, s)
    \/ \E r \in Runners : ClaimCommit(r)
    \/ \E r \in Runners : \E url \in held[r], doc \in {"bad", "short"} : Fetch(r, url, doc)
    \/ \E r \in Runners : \E url \in DOMAIN hf[r] : HandleFailureWrite(r, url)

SpecRetry == Init /\ [][NextRetry]_vars

\* C4: a handle_failure whose row still has the retry_count the call read
\* leaves the row FAILED with retry_count = MAX_RETRIES when that count was
\* MAX_RETRIES - 1, and PENDING with retry_count one higher when it was lower.
C4_HandleFailureOutcome ==
    [][\A r \in Runners : \A url \in DOMAIN hf[r] :
          (HandleFailureWrite(r, url) /\ url \in DOMAIN urls
             /\ urls[url].retry_count = hf[r][url]) =>
          /\ urls[url].retry_count = MAX_RETRIES - 1 =>
                /\ urls'[url].status = "FAILED"
                /\ urls'[url].retry_count = MAX_RETRIES
          /\ urls[url].retry_count < MAX_RETRIES - 1 =>
                /\ urls'[url].status = "PENDING"
                /\ urls'[url].retry_count = urls[url].retry_count + 1]_vars

\* a row requeued twice: PENDING with retry_count = MAX_RETRIES - 1, which only
\* handle_failure's requeue writes
C4_Witness ==
    \E url \in DOMAIN urls :
       /\ urls[url].status = "PENDING"
       /\ urls[url].retry_count = MAX_RETRIES - 1
       /\ urls[url].processed_at # NoTime

\* C5: every handle_failure of a url whose fetches all end in a content error
\* raises retry_count by one and leaves the row PENDING below MAX_RETRIES and
\* FAILED from MAX_RETRIES on; a claim returns only rows with fewer than
\* MAX_RETRIES failures; and a row FAILED at the cap stays FAILED through every
\* later claim and upsert.
C5_ContentErrorsRetryThenFail ==
    [][ /\ \A r \in Runners : \A url \in DOMAIN hf[r] :
             (HandleFailureWrite(r, url) /\ url \in DOMAIN urls) =>
                /\ urls'[url].retry_count = urls[url].retry_count + 1
                /\ urls'[url].status =
                      (IF urls'[url].retry_count >= MAX_RETRIES THEN "FAILED" ELSE "PENDING")
        /\ \A r \in Runners : ClaimCommit(r) =>
              \A url \in held'[r] : urls[url].retry_count < MAX_RETRIES
        /\ \A r \in Runners : (ClaimCommit(r) \/ UpsertWrite(r)) =>
              \A url \in DOMAIN urls :
                 (urls[url].status = "FAILED" /\ urls[url].retry_count >= MAX_RETRIES) =>
                    /\ url \in DOMAIN urls'
                    /\ urls'[url].status = "FAILED"]_vars

\* C9: no step lowers the retry_count of a stored url.
C9_RetryCountNeverDecreases ==
    [][\A url \in DOMAIN urls \cap DOMAIN urls' :
          urls'[url].retry_count >= urls[url].retry_count]_vars

\* ------------------------------------------------------------------------
\* SpecUpsert: both runners upsert the once-canonicalized link, runner 1 as
\* the configured source "s1" and runner 2 as the discovered source "d1".
\* Runner 1 goes on to claim, fetch and complete or fail; runner 2 stays in
\* its map phase.  Every start normalizes the table.
NextUpsert ==
    \/ \E r \in Runners : \E order \in Orders(DOMAIN urls) : Start(r, Permissive, order)
    \/ \E p \in Priorities : AddUrlsCall(1, "s1", {Item(TQKey, p)})
    \/ AddUrlsCall(2, "d1", {Item(TQKey, MaxPriority)})
    \/ \E r \in Runners : \E item \in todo[r] : UpsertRead(r, item)
    \/ \E r \in Runners : UpsertWrite(r)
    \/ MapDone(1)
    \/ ClaimCall(1, 1)
    \/ ClaimBegin(1)
    \/ \E s \in Selections(urls, now, lim[1]) : ClaimSelect(1, s)
    \/ ClaimCommit(1)
    \/ \E url \in held[1], doc \in {"good", "bad"} : Fetch(1, url, doc)
    \/ \E url \in DOMAIN hf[1] : HandleFailureWrite(1, url)

SpecUpsert == Init /\ [][NextUpsert]_vars

\* the upsert of runner r has read its row and no other writer has changed
\* the row since
UpsertUndisturbed(r) == Lookup(urls, up[r].url) = up[r].existing

\* C6: an upsert whose row no other writer changes between its SELECT and
\* its write: on a stored priority greater than or equal to the item's, the
\* stored priority and the count of priority updates are left as they were;
\* on a lower stored priority the item's priority is stored and the count of
\* priority updates rises by one; on a url with no row a PENDING row with the
\* item's priority is inserted and the count of added rows rises by one.
C6_UpsertPriorityCounts ==
    [][\A r \in Runners :
          /\ \A item \in todo[r] : UpsertRead(r, item) =>
                /\ urls' = urls /\ cnt' = cnt
                /\ (item.url \in DOMAIN urls /\ item.priority <= urls[item.url].priority
                      /\ pc'[r] = "addw") =>
                      (urls[item.url].status = "FAILED"
                         /\ urls[item.url].retry_count < MAX_RETRIES)
                /\ (item.url \notin DOMAIN urls \/ item.priority > Lookup(urls, item.url).priority)
                      => pc'[r] = "addw"
          /\ (UpsertWrite(r) /\ UpsertUndisturbed(r)) =>
                LET url == up[r].url
                    priority == up[r].priority
                IN /\ url \in DOMAIN urls'
                   /\ url \notin DOMAIN urls =>
                         /\ urls'[url].status = "PENDING"
                         /\ urls'[url].priority = priority
                         /\ cnt'[r] = <<cnt[r][1] + 1, cnt[r][2]>>
                   /\ (url \in DOMAIN urls /\ priority <= urls[url].priority) =>
                         /\ urls'[url].priority = urls[url].priority
                         /\ cnt'[r] = cnt[r]
                   /\ (url \in DOMAIN urls /\ priority > urls[url].priority) =>
                         /\ urls'[url].priority = priority
                         /\ cnt'[r] = <<cnt[r][1], cnt[r][2] + 1>>]_vars

\* an upsert has just reported one priority update and no added row, and the
\* row holds the raised priority
C6_Witness ==
    \E r \in Runners :
       /\ pc[r] = "map"
       /\ cnt[r] = <<0, 1>>
       /\ \E url \in DOMAIN urls : urls[url].priority > MIN_RELEVANCE_SCORE

\* C7: an upsert on an existing row that no other writer changes between its
\* SELECT and its write turns FAILED with retry_count < MAX_RETRIES into
\* PENDING and keeps every other status; it keeps retry_count, discovered_at
\* and processed_at and every other row; and it writes only when a priority
\* raise or a requeue applies, so that otherwise the row stays as it is,
\* source_name included.
C7_UpsertFrame ==
    [][\A r \in Runners :
          /\ \A item \in todo[r] : UpsertRead(r, item) =>
                /\ urls' = urls
                /\ (/\ item.url \in DOMAIN urls
                    /\ item.priority <= urls[item.url].priority
                    /\ ~(urls[item.url].status = "FAILED"
                           /\ urls[item.url].retry_count < MAX_RETRIES)) =>
                      /\ pc'[r] # "addw"
                      /\ item \notin todo'[r]
          /\ (UpsertWrite(r) /\ UpsertUndisturbed(r) /\ up[r].url \in DOMAIN urls) =>
                LET url == up[r].url
                    old == urls[url]
                    new == urls'[url]
                IN /\ DOMAIN urls' = DOMAIN urls
                   /\ new.status = (IF old.status = "FAILED" /\ old.retry_count < MAX_RETRIES
                                    THEN "PENDING" ELSE old.status)
                   /\ new.retry_count = old.retry_count
                   /\ new.discovered_at = old.discovered_at
                   /\ new.processed_at = old.processed_at
                   /\ \A other \in DOMAIN urls \ {url} : urls'[other] = urls[other]]_vars

\* an upsert has read a FAILED row below the cap, which no one has changed
\* since, and is about to requeue it
C7_Witness ==
    \E r \in Runners :
       /\ pc[r] = "addw"
       /\ up[r].existing # NoRow
       /\ up[r].existing.status = "FAILED"
       /\ up[r].existing.retry_count < MAX_RETRIES
       /\ UpsertUndisturbed(r)

\* C8: no step lowers the stored priority of a url.
C8_PriorityNeverDecreases ==
    [][\A url \in DOMAIN urls \cap DOMAIN urls' :
          urls'[url].priority >= urls[url].priority]_vars

\* C10: every stored key equals its own canonicalization, and no two rows
\* have the same canonicalization.
C10_OneRowPerCanonicalUrl ==
    /\ \A url \in DOMAIN urls : _canonicalize_url(url) = url
    /\ \A a, b \in DOMAIN urls : _canonicalize_url(a) = _canonicalize_url(b) => a = b

\* C11: a stored row that was not PROCESSING becomes PROCESSING only in the
\* commit of a claim that returns it.
C11_ProcessingOnlyByClaim ==
    [][\A url \in DOMAIN urls \cap DOMAIN urls' :
          (urls[url].status # "PROCESSING" /\ urls'[url].status = "PROCESSING") =>
             \E r \in Runners : ClaimCommit(r) /\ url \in held'[r]]_vars

\* row a comes strictly before row b under priority descending, then
\* discovered_at ascending
C12_Earlier(a, b) ==
    \/ a.priority > b.priority
    \/ a.priority = b.priority /\ a.discovered_at < b.discovered_at

\* the rows a claim may return at time t: PENDING or stale PROCESSING, below
\* the retry cap
C12_EligibleRows ==
    {url \in DOMAIN urls :
        /\ \/ urls[url].status = "PENDING"
           \/ /\ urls[url].status = "PROCESSING"
              /\ urls[url].processed_at # NoTime
              /\ urls[url].processed_at + PROCESSING_STALE_HOURS < now
        /\ urls[url].retry_count < MAX_RETRIES}

NextRestart ==
    \/ Tick
    \/ \E order \in Orders(DOMAIN urls) : Start(1, Permissive, order)
    \/ AddUrlsCall(1, "s1", {Item(TKey, MIN_RELEVANCE_SCORE)})
    \/ AddUrlsCall(1, "s1", {Item(TQKey, MaxPriority)})
    \/ \E item \in todo[1] : UpsertRead(1, item)
    \/ UpsertWrite(1)
    \/ MapDone(1)
    \/ ClaimCall(1, 1)
    \/ ClaimBegin(1)
    \/ \E s \in Selections(urls, now, lim[1]) : ClaimSelect(1, s)
    \/ ClaimCommit(1)
    \/ \E url \in held[1], doc \in {"good", "bad"} : Fetch(1, url, doc)
    \/ \E url \in DOMAIN hf[1] : HandleFailureWrite(1, url)
    \/ Crash(1)

SpecRestart == Init /\ [][NextRestart]_vars

C13_Members(c) == {url \in DOMAIN urls : _canonicalize_url(url) = c}

C13_Canonicals == {_canonicalize_url(url) : url \in DOMAIN urls}

\* C13: when a run opens the database, normalize_existing_urls leaves exactly
\* one row per canonical URL; that row has the highest-ranked status of the
\* rows that shared the canonical URL (PENDING 4, PROCESSING 3, FAILED 2,
\* COMPLETED 1), the largest retry_count and priority, the earliest
\* discovered_at and the latest processed_at; the value returned is the number
\* of rows removed.
C13_NormalizeMergesByPolicy ==
    [][\A r \in Runners :
          (pc[r] = "off" /\ pc'[r] = "map") =>
             LET rank(s) == CASE s = "PENDING" -> 4 [] s = "PROCESSING" -> 3
                              [] s = "FAILED" -> 2 [] s = "COMPLETED" -> 1
             IN /\ DOMAIN urls' = C13_Canonicals
                /\ \A c \in C13_Canonicals :
                      LET m == C13_Members(c)
                          out == urls'[c]
                      IN /\ \E u \in m : out.status = urls[u].status
                         /\ \E u \in m : out.retry_count = urls[u].retry_count
                         /\ \E u \in m : out.priority = urls[u].priority
                         /\ \E u \in m : out.discovered_at = urls[u].discovered_at
                         /\ \E u \in m : out.processed_at = urls[u].processed_at
                         /\ \A u \in m :
                               /\ rank(out.status) >= rank(urls[u].status)
                               /\ out.retry_count >= urls[u].retry_count
                               /\ out.priority >= urls[u].priority
                               /\ out.discovered_at <= urls[u].discovered_at
                               /\ out.processed_at >= urls[u].processed_at
                /\ \A order \in Orders(DOMAIN urls) :
                      normalize_existing_urls(urls, order) = urls' =>
                         NormalizeMerged(urls, order)
                            = Cardinality(DOMAIN urls) - Cardinality(DOMAIN urls')]_vars

\* a run is about to open a database in which two rows share a canonical URL
\* and differ in status, retry_count, priority and discovered_at
C13_Witness ==
    \E u, v \in DOMAIN urls :
       /\ pc[1] = "off"
       /\ u # v
       /\ _canonicalize_url(u) = _canonicalize_url(v)
       /\ _status_priority(urls[u].status) > _status_priority(urls[v].status)
       /\ urls[u].retry_count < urls[v].retry_count
       /\ urls[u].priority # urls[v].priority
       /\ urls[u].discovered_at > urls[v].discovered_at

\* ------------------------------------------------------------------- C14
\* a later claim can return the row: it passes the claim's WHERE clause now or
\* once its PROCESSING timestamp has aged past the staleness window
C14_Claimable(row) ==
    \E t \in now..(MaxTime + PROCESSING_STALE_HOURS + 1) : Eligible(row, t)

C14_Terminal(row) ==
    \/ row.status = "COMPLETED"
    \/ row.status = "FAILED" /\ row.retry_count >= MAX_RETRIES

\* C14 as stated: when a run opens the database and a COMPLETED row, or a
\* FAILED row at the retry cap, shares its canonical URL with another row, the
\* merged row cannot be returned by any later claim.
C14_MergeNeverResurrects ==
    [][\A r \in Runners :
          (pc[r] = "off" /\ pc'[r] = "map") =>
             \A c \in C13_Canonicals :
                (/\ Cardinality(C13_Members(c)) >= 2
                 /\ \E u \in C13_Members(c) : C14_Terminal(urls[u]))
                   => ~C14_Claimable(urls'[c])]_vars

\* C14 amended: a FAILED row at the retry cap keeps the merged row out of
\* every later claim; a COMPLETED row does so only if no row it is merged with
\* is PENDING or PROCESSING below the cap - merged with such a row it is
\* queued again.
C14_MergeResurrectsOnlyCompleted ==
    [][\A r \in Runners :
          (pc[r] = "off" /\ pc'[r] = "map") =>
             \A c \in C13_Canonicals :
                LET m == C13_Members(c)
                IN Cardinality(m) >= 2 =>
                     /\ (\E u \in m : urls[u].status = "FAILED"
                                        /\ urls[u].retry_count >= MAX_RETRIES)
                           => ~C14_Claimable(urls'[c])
                     /\ (\E u \in m : urls[u].status = "COMPLETED")
                           => (C14_Claimable(urls'[c])
                                 <=> /\ \E v \in m : urls[v].status \in {"PENDING", "PROCESSING"}
                                     /\ \A v \in m : urls[v].retry_count < MAX_RETRIES)]_vars

\* a run is about to open a database in which a COMPLETED row shares its
\* canonical URL with a PENDING row below the retry cap
C14_Witness ==
    \E u, v \in DOMAIN urls :
       /\ pc[1] = "off"
       /\ u # v
       /\ _canonicalize_url(u) = _canonicalize_url(v)
       /\ urls[u].status = "COMPLETED"
       /\ urls[v].status = "PENDING"
       /\ urls[v].retry_count < MAX_RETRIES

\* ------------------------------------------------------------------- C15
\* Runner 1 maps the configured source "s1" and the discovered source "d1" and
\* scrapes what it queued; runner 2 is started meanwhile, again and again, and
\* runs the quota filter.
QuotaRegistries ==
    {[condition_tags |-> tags, target_completed_pages |-> target, target_cases |-> target] :
        tags \in [ConfiguredNames -> SUBSET Conditions], target \in [Conditions -> 0..MaxTarget]}

NextQuota ==
    \/ \E r \in Runners : \E order \in Orders(DOMAIN urls) : Start(r, Permissive, order)
    \/ /\ pc[2] = "map"
       /\ quota[2] = NoQuota
       /\ \E reg \in QuotaRegistries, sources \in SourceLists : SelectSources(2, reg, sources)
    \/ Crash(2)
    \/ AddUrlsCall(1, "s1", {Item(TKey, MIN_RELEVANCE_SCORE)})
    \/ AddUrlsCall(1, "d1", {Item(TQKey, MIN_RELEVANCE_SCORE)})
    \/ \E item \in todo[1] : UpsertRead(1, item)
    \/ UpsertWrite(1)
    \/ MapDone(1)
    \/ ClaimCall(1, 1)
    \/ ClaimBegin(1)
    \/ \E s \in Selections(urls, now, lim[1]) : ClaimSelect(1, s)
    \/ ClaimCommit(1)
    \/ \E url \in held[1] : Fetch(1, url, "good")

SpecQuota == Init /\ [][NextQuota]_vars

\* the largest pages_deficit over the tags of a source, 0 without tags
C15_Deficit(q, name) ==
    LET d == {q.coverage[tag].pages_deficit : tag \in q.registry.condition_tags[name]}
    IN IF d = {} THEN 0 ELSE CHOOSE x \in d : \A y \in d : y <= x

\* C15: the quota filter splits the sources it is given into active and
\* skipped; a source without condition tags is active; a tagged source is
\* active exactly when one of its tags has pages_deficit > 0; the active list
\* is in descending order of the largest pages_deficit over the source's tags,
\* sources with the same value in ascending order of name.
C15_QuotaFilterPartitionsAndOrders ==
    [][\A r \in Runners :
          (quota[r] = NoQuota /\ quota'[r] # NoQuota) =>
             LET q == quota'[r]
                 tags(name) == q.registry.condition_tags[name]
                 A == SeqRange(q.active)
                 S == SeqRange(q.skipped)
             IN /\ A \cup S = SeqRange(q.sources)
                /\ A \cap S = {}
                /\ Len(q.active) + Len(q.skipped) = Len(q.sources)
                /\ \A name \in SeqRange(q.sources) :
                      /\ tags(name) = {} => name \in A
                      /\ tags(name) # {} =>
                            (name \in A <=>
                               \E tag \in tags(name) : q.coverage[tag].pages_deficit > 0)
                /\ \A i, j \in 1..Len(q.active) :
                      i < j =>
                         \/ C15_Deficit(q, q.active[i]) > C15_Deficit(q, q.active[j])
                         \/ /\ C15_Deficit(q, q.active[i]) = C15_Deficit(q, q.active[j])
                            /\ NameRank(q.active[i]) < NameRank(q.active[j])]_vars

\* with a page COMPLETED, the filter was given "s1" before "s2", "s1" tagged,
\* and has returned both as active with "s2" first
C15_Witness ==
    \E r \in Runners :
       /\ quota[r] # NoQuota
       /\ quota[r].sources = <<"s1", "s2">>
       /\ quota[r].active = <<"s2", "s1">>
       /\ quota[r].registry.condition_tags["s1"] # {}
       /\ \E url \in DOMAIN urls : urls[url].status = "COMPLETED"

\* ------------------------------------------------------------------- C16
\* C16: the coverage computed in a quota filter call reports, for every
\* condition, completed_pages equal to the number of COMPLETED rows whose
\* owning source carries the condition tag in its definition (a discovered
\* source carries the condition it was built for), pages_deficit =
\* max(0, target_completed_pages - completed_pages), cases_deficit likewise,
\* and no negative deficit.
C16_CoverageCountsEveryTaggedRow ==
    [][\A r \in Runners :
          (quota[r] = NoQuota /\ quota'[r] # NoQuota) =>
             \A c \in Conditions :
                LET q == quota'[r]
                    cov == q.coverage[c]
                    tagged == {url \in DOMAIN urls :
                                 /\ urls[url].status = "COMPLETED"
                                 /\ c \in DefinitionTags(q.registry, urls[url].source_name)}
                IN /\ cov.completed_pages = Cardinality(tagged)
                   /\ cov.pages_deficit >= 0
                   /\ cov.cases_deficit >= 0
                   /\ cov.pages_deficit
                        = (IF cov.target_completed_pages > cov.completed_pages
                           THEN cov.target_completed_pages - cov.completed_pages ELSE 0)
                   /\ cov.cases_deficit
                        = (IF cov.target_cases > cov.completed_cases
                           THEN cov.target_cases - cov.completed_cases ELSE 0)]_vars

\* ------------------------------------------------------------------- C17
\* One process, started again and again, that queues the thread page and one
\* of its post links, scrapes them and accepts what the fetch-time check lets
\* through.
NextCache ==
    \/ \E order \in Orders(DOMAIN urls) : Start(1, Permissive, order)
    \/ AddUrlsCall(1, "s1", {Item(TKey, MIN_RELEVANCE_SCORE)})
    \/ AddUrlsCall(1, "s1", {Item(TQKey, MaxPriority)})
    \/ \E item \in todo[1] : UpsertRead(1, item)
    \/ UpsertWrite(1)
    \/ MapDone(1)
    \/ ClaimCall(1, 1)
    \/ ClaimBegin(1)
    \/ \E s \in Selections(urls, now, lim[1]) : ClaimSelect(1, s)
    \/ ClaimCommit(1)
    \/ \E url \in held[1] : ProcessCached(1, url)
    \/ \E url \in held[1], doc \in {"good", "edge"} : Fetch(1, url, doc)
    \/ Crash(1)

SpecCache == Init /\ [][NextCache]_vars

\* C17: no URL is COMPLETED while the document cached for it is one the
\* classifier flags as suspect.
C17_NoCompletedSuspectDocument ==
    \A url \in DOMAIN urls \cap DOMAIN cache :
       urls[url].status = "COMPLETED" => ~SuspectAsFile(cache[url])

\* ------------------------------------------------------------------- C18
\* the canonical source URLs of the cached documents the classifier flags
C18_Flagged == {_canonicalize_url(url) : url \in {u \in DOMAIN cache : SuspectAsFile(cache[u])}}

NextDeny ==
    \/ \E c \in {Permissive, DenyThread} : \E order \in Orders(DOMAIN urls) : Start(1, c, order)
    \/ \E url \in {TKey, UKey} : AddUrlsCall(1, "s1", {Item(url, MIN_RELEVANCE_SCORE)})
    \/ \E item \in todo[1] : UpsertRead(1, item)
    \/ UpsertWrite(1)
    \/ MapDone(1)
    \/ ClaimCall(1, 1)
    \/ ClaimBegin(1)
    \/ \E s \in Selections(urls, now, lim[1]) : ClaimSelect(1, s)
    \/ ClaimCommit(1)
    \/ \E url \in held[1], doc \in {"good", "bad"} : Fetch(1, url, doc)
    \/ \E url \in DOMAIN hf[1] : HandleFailureWrite(1, url)
    \/ Crash(1)

SpecDeny == Init /\ [][NextDeny]_vars

\* C19: when a run opens the database, the hard-deny pass leaves every row
\* of a configured source whose URL contains one of the hard_deny tokens
\* FAILED with retry_count = MAX_RETRIES, whatever its status was, leaves
\* every other row as it was, returns the number of rows it changed, and
\* would return 0 if run again on the result.
C19_HardDenyForcesFailed ==
    [][\A r \in Runners :
          (pc[r] = "off" /\ pc'[r] = "map") =>
             LET c == cfg'[r]
                 hit == {url \in DOMAIN urls :
                           /\ urls[url].source_name \in ConfiguredNames
                           /\ ContainsToken(url, c.hard_deny_tokens)}
             IN /\ DOMAIN urls' = DOMAIN urls
                /\ \A url \in hit :
                      urls'[url].status = "FAILED" /\ urls'[url].retry_count = MAX_RETRIES
                /\ \A url \in DOMAIN urls \ hit : urls'[url] = urls[url]
                /\ HardDenyUpdated(urls, c)
                     = Cardinality({url \in DOMAIN urls : urls'[url] # urls[url]})
                /\ HardDenyUpdated(urls', c) = 0]_vars

\* the pass has acted on a COMPLETED row: the run was started with the token,
\* the second thread's accepted document is in the cache and its row is
\* FAILED at the cap, and the first thread's row is not FAILED
C19_Witness ==
    /\ cfg[1] = DenyThread
    /\ UKey \in DOMAIN cache
    /\ UKey \in DOMAIN urls
    /\ urls[UKey].status = "FAILED" /\ urls[UKey].retry_count = MAX_RETRIES
    /\ TKey \in DOMAIN urls
    /\ urls[TKey].status # "FAILED"

\* ------------------------------------------------------------------- C20
\* One process, started again after each aborted run, that maps "s1" and
\* "s2" with every outcome of the map queries and of the fallback, then
\* scrapes.
NextMap ==
    \/ \E order \in Orders(DOMAIN urls) : Start(1, Permissive, order)
    \/ \E results \in QueryResults, fallback \in FallbackOutcomes :
          \/ MapSingleSource(1, "s1", results, fallback, {Item(TKey, MIN_RELEVANCE_SCORE)})
          \/ MapSingleSource(1, "s2", results, fallback, {Item(UKey, MIN_RELEVANCE_SCORE)})
    \/ \E item \in todo[1] : UpsertRead(1, item)
    \/ UpsertWrite(1)
    \/ MapDone(1)
    \/ ClaimCall(1, 1)
    \/ ClaimBegin(1)
    \/ \E s \in Selections(urls, now, lim[1]) : ClaimSelect(1, s)
    \/ ClaimCommit(1)
    \/ \E url \in held[1], doc \in {"good", "bad"} : Fetch(1, url, doc)
    \/ \E url \in DOMAIN hf[1] : HandleFailureWrite(1, url)

SpecMap == Init /\ [][NextMap]_vars

\* what the sources are mapped to in these runs
C20_Items == {{Item(url, MIN_RELEVANCE_SCORE)} : url \in {TKey, UKey}}

C20_AllConnectivity(results) == \A i \in DOMAIN results : results[i] = "connectivity"

\* the run is over with nothing upserted and nothing claimed
C20_Aborted(r) ==
    /\ pc'[r] = "off"
    /\ urls' = urls
    /\ todo'[r] = {}
    /\ held'[r] = {}

MainRegistries ==
    {[condition_tags |-> [name \in ConfiguredNames |->
                             IF name = "s1" THEN {"ca"} ELSE {"cb"}],
      target_completed_pages |-> [c \in Conditions |-> t],
      target_cases |-> [c \in Conditions |-> t]] : t \in {0, MaxTarget}}

MainItems(name) == IF name = "s1" THEN {Item(TKey, MIN_RELEVANCE_SCORE)}
                   ELSE {Item(UKey, MIN_RELEVANCE_SCORE)}

NextMain ==
    \/ \E c \in {Permissive, AllDisabled} : \E order \in Orders(DOMAIN urls) :
          Start(1, c, order)
    \/ \E outcome \in PreflightOutcomes : Preflight(1, outcome)
    \/ /\ run[1].stage = "preflight"
       /\ \E reg \in MainRegistries : SelectSources(1, reg, <<"s1", "s2">>)
    \/ /\ quota[1] # NoQuota
       /\ \E outcomes \in [SeqRange(quota[1].active) -> ProbeOutcomes] :
             ProbeFilter(1, outcomes)
    \/ /\ pc[1] = "map"
       /\ run[1].stage = "probe"
       /\ \E i \in DOMAIN quota[1].active :
             \E results \in QueryResults, fallback \in FallbackOutcomes :
                MapSingleSource(1, quota[1].active[i], results, fallback,
                                MainItems(quota[1].active[i]))
    \/ \E item \in todo[1] : UpsertRead(1, item)
    \/ UpsertWrite(1)
    \/ MapSourcesReturns(1)
    \/ ClaimCall(1, 1)
    \/ ClaimBegin(1)
    \/ \E s \in Selections(urls, now, lim[1]) : ClaimSelect(1, s)
    \/ ClaimCommit(1)
    \/ \E url \in held[1], doc \in {"good", "bad"} : Fetch(1, url, doc)
    \/ \E url \in DOMAIN hf[1] : HandleFailureWrite(1, url)

SpecMain == Init /\ [][NextMain]_vars

\* main has caught FirecrawlAuthenticationError and returned before the
\* scrape phase
C21_AbortedOnAuthentication(r) ==
    /\ pc'[r] = "off"
    /\ run'[r].error = "auth"

\* C21: an authentication error of the fetch service at any point of the map
\* phase (the preflight, the seed probe of a source, a map query of a source)
\* ends the run at that step with FirecrawlAuthenticationError, not with a
\* connectivity error, and the scrape phase is not entered.
C21_AuthenticationErrorAborts ==
    [][\A r \in Runners :
          /\ (cfg[r] # NoCfg /\ cfg[r].enabled /\ Preflight(r, "auth"))
                => C21_AbortedOnAuthentication(r)
          /\ (quota[r] # NoQuota
              /\ \E outcomes \in [SeqRange(quota[r].active) -> ProbeOutcomes] :
                    /\ \E name \in DOMAIN outcomes :
                          outcomes[name] \in {"auth_pass", "auth_skip"}
                    /\ ProbeFilter(r, outcomes))
                => C21_AbortedOnAuthentication(r)
          /\ (\E name \in SourceNames, results \in QueryResults,
                 fallback \in FallbackOutcomes :
                    /\ \E i \in DOMAIN results : results[i] = "auth"
                    /\ MapSingleSource(r, name, results, fallback, MainItems(name)))
                => C21_AbortedOnAuthentication(r)]_vars

\* ------------------------------------------------------------------- C22
\* The same process under weak fairness of its steps: a call that can return
\* does return, and main is run again after it ended.
SpecMainFair == Init /\ [][NextMain]_vars /\ WF_vars(NextMain)

\* C22: every run of main that has opened the database eventually prints the
\* condition-coverage summary, whatever happens in its map phase and in its
\* scrape phase.
C22_EveryRunPrintsSummary ==
    \A r \in Runners : [](pc[r] = "map" => <>run[r].summary)

\* ------------------------------------------------------------------- C23
\* C23: when get_pending_chunk fails after its BEGIN IMMEDIATE, in the SELECT
\* or in the UPDATE, the transaction is rolled back and the write lock
\* released, the error leaves the call (the run ends with it, no url is
\* handed to the caller), and every row has the status and processed_at it
\* had before the step, the selected rows included.
C23_FailedClaimChangesNothing ==
    [][\A r \in Runners :
          ClaimError(r) =>
             /\ DOMAIN urls' = DOMAIN urls
             /\ \A url \in DOMAIN urls :
                   /\ urls'[url].status = urls[url].status
                   /\ urls'[url].processed_at = urls[url].processed_at
             /\ lock' # r
             /\ pc'[r] = "off"
             /\ run'[r].error = "store"
             /\ held'[r] = {}]_vars

\* a claim has failed and ended the run of one runner while a row it could
\* have selected is still PENDING and never claimed
C23_Witness ==
    \E r \in Runners :
       /\ pc[r] = "off"
       /\ run[r].error = "store"
       /\ \E url \in DOMAIN urls :
             /\ urls[url].status = "PENDING"
             /\ urls[url].processed_at = NoTime

\* ------------------------------------------------------------------- C24
\* One process, started again after each run, that maps "s1" with every
\* outcome of the map queries, of the scrape-link fallback and of the score
\* of the seed, under a registry that allows the seed fallback and under one
\* that does not, then scrapes.
NextFallback ==
    \/ \E c \in {Permissive, Strict} : \E order \in Orders(DOMAIN urls) : Start(1, c, order)
    \/ /\ pc[1] = "map"
       /\ \E results \in QueryResults, scrape \in Scrapes(cfg[1]), seed_score \in SeedScores :
             MapSource(1, "s1", results, scrape, seed_score)
    \/ \E item \in todo[1] : UpsertRead(1, item)
    \/ UpsertWrite(1)
    \/ MapDone(1)
    \/ ClaimCall(1, 1)
    \/ ClaimBegin(1)
    \/ \E s \in Selections(urls, now, lim[1]) : ClaimSelect(1, s)
    \/ ClaimCommit(1)
    \/ \E url \in held[1], doc \in {"good", "bad"} : Fetch(1, url, doc)
    \/ \E url \in DOMAIN hf[1] : HandleFailureWrite(1, url)

SpecFallback == Init /\ [][NextFallback]_vars

\* the urls handed to add_urls_to_db in the step
C24_Upserted(r) == {item.url : item \in todo'[r]}

\* C24: when the map queries of a source yield no link that passes the
\* ranking and the run is not aborted, the scrape-link probe decides: with at
\* least MIN_FALLBACK_HIGH_SIGNAL_LINKS ranked links the probe's links are
\* what is upserted; otherwise the canonical seed alone is upserted if the
\* source allows the seed fallback, and nothing is upserted if it does not.
C24_FallbackThenSeed ==
    [][\A r \in Runners :
          (pc[r] = "map" /\ pc'[r] # "off") =>
             \A results \in QueryResults, scrape \in Scrapes(cfg[r]), seed_score \in SeedScores :
                (/\ \A i \in DOMAIN results : results[i] # "links"
                 /\ MapSource(r, "s1", results, scrape, seed_score))
                   => IF FallbackOutcome(scrape) = "accepted"
                      THEN C24_Upserted(r) = scrape.links
                      ELSE IF cfg[r].allow_seed_fallback
                           THEN C24_Upserted(r) = {_canonicalize_url(SeedUrl)}
                           ELSE C24_Upserted(r) = {}]_vars

\* ------------------------------------------------------------------- C25
\* The links a map query can return for the thread: the thread path followed
\* by up to MaxStack pagination or anchor suffixes in any order, with or
\* without a trailing slash, a tracking key, a fragment and an upper-case host.
MaxStack == 2
Suffixes == {<<"post-5">>, <<"latest">>, <<"page-2">>, <<"page", "2">>}

RECURSIVE Stacks(_)
Stacks(n) == IF n = 0 THEN {<<>>}
             ELSE Stacks(n - 1) \cup {s \o x : s \in Stacks(n - 1), x \in Suffixes}

RawUrls == {Url(<<"threads", "t1">> \o stack, slash, query, frag, frag) :
               stack \in Stacks(MaxStack), slash \in {0, 1},
               query \in {<<>>, <<"utm_source">>}, frag \in BOOLEAN}

\* map_single_source keeps one link of a map query: _rank_candidate_urls
\* canonicalizes it and the result is handed to add_urls_to_db
MapRawLink(r, raw) ==
    AddUrlsCall(r, "s1", {Item(_canonicalize_url(raw), MIN_RELEVANCE_SCORE)})

\* One process that maps one link of the thread, and the same link again in
\* later runs, then scrapes.
NextCanon ==
    \/ \E order \in Orders(DOMAIN urls) : Start(1, Permissive, order)
    \/ \E raw \in RawUrls :
          /\ DOMAIN urls \subseteq {_canonicalize_url(raw)}
          /\ MapRawLink(1, raw)
    \/ \E item \in todo[1] : UpsertRead(1, item)
    \/ UpsertWrite(1)
    \/ MapDone(1)
    \/ ClaimCall(1, 1)
    \/ ClaimBegin(1)
    \/ \E s \in Selections(urls, now, lim[1]) : ClaimSelect(1, s)
    \/ ClaimCommit(1)
    \/ \E url \in held[1], doc \in {"good", "bad"} : Fetch(1, url, doc)
    \/ \E url \in DOMAIN hf[1] : HandleFailureWrite(1, url)

SpecCanon == Init /\ [][NextCanon]_vars

\* C25: the canonical form of every link handed to the upsert is a fixed
\* point of _canonicalize_url, whatever suffixes were stacked on the link,
\* and carries no tracking query key, no fragment and no trailing slash
\* (the root path apart).
C25_CanonicalizeIdempotent ==
    [][\A r \in Runners :
          (pc[r] = "map" /\ pc'[r] = "add") =>
             \A raw \in RawUrls :
                MapRawLink(r, raw) =>
                   LET canonical == _canonicalize_url(raw)
                   IN /\ _canonicalize_url(canonical) = canonical
                      /\ SeqRange(canonical.query) \cap TRACKING_QUERY_KEYS = {}
                      /\ ~canonical.frag
                      /\ canonical.slash = 0 \/ canonical.path = <<>>]_vars

\* ------------------------------------------------------------------- C26
\* One process whose map phase runs the preflight, the quota filter, the seed
\* probe gate and the discovery for the unmet condition, with every
\* multiplicity of the candidates, and whose scrape phase finds nothing to do.
NextDiscover ==
    \/ \E order \in Orders(DOMAIN urls) : Start(1, Permissive, order)
    \/ Preflight(1, "ok")
    \/ /\ run[1].stage = "preflight"
       /\ \E reg \in MainRegistries : SelectSources(1, reg, <<"s1", "s2">>)
    \/ /\ quota[1] # NoQuota
       /\ \E outcomes \in [SeqRange(quota[1].active) -> {"pass", "skip"}] :
             ProbeFilter(1, outcomes)
    \/ \E combined \in Combined : Discover(1, combined)
    \/ MapSourcesReturns(1)
    \/ ClaimCall(1, 1)
    \/ ClaimBegin(1)
    \/ \E s \in Selections(urls, now, lim[1]) : ClaimSelect(1, s)
    \/ ClaimCommit(1)

SpecDiscover == Init /\ [][NextDiscover]_vars

\* the step is a discovery for the unmet condition
C26_Discovered(r) ==
    /\ run[r].stage = "probe"
    /\ run'[r].stage = "discovery"
    /\ run'[r].discovery # NoDiscovery

\* the candidates of the input that may be selected at all
C26_Eligible(combined) ==
    {c \in Candidates : /\ combined[c] > 0
                        /\ CandidateScore(c) >= DISCOVERY_MIN_CANDIDATE_SCORE
                        /\ c \notin ConfiguredSeeds}

\* at most the maximum, every score at or above the minimum, no configured
\* seed, no url twice
C26_Bounded(selected) ==
    /\ Len(selected) <= DISCOVERY_MAX_CANDIDATES_PER_CONDITION
    /\ \A i \in DOMAIN selected :
          /\ CandidateScore(selected[i]) >= DISCOVERY_MIN_CANDIDATE_SCORE
          /\ selected[i] \notin ConfiguredSeeds
    /\ \A i, j \in DOMAIN selected : selected[i] = selected[j] => i = j

\* C26 as stated: the candidates selected for a condition are at most
\* DISCOVERY_MAX_CANDIDATES_PER_CONDITION, each scores at least
\* DISCOVERY_MIN_CANDIDATE_SCORE, none is the canonical seed of a configured
\* source, none occurs twice, and no host has more than host_cap of them.
C26_SelectionWithinHostCap ==
    [][\A r \in Runners :
          C26_Discovered(r) =>
             LET selected == run'[r].discovery.selected
             IN /\ C26_Bounded(selected)
                /\ \A c \in Candidates :
                      HostCount(selected, CandidateHost(c)) <= host_cap]_vars

\* C26 amended: the same bounds on number, score, configured seeds and
\* repetition; a host has more than host_cap selected candidates only when
\* every selectable candidate left out is of a host that has host_cap or
\* more; and a selection below the maximum leaves no selectable candidate out.
C26_SelectionHostCapUnlessBackfilled ==
    [][\A r \in Runners :
          C26_Discovered(r) =>
             LET selected == run'[r].discovery.selected
                 left == C26_Eligible(run'[r].discovery.combined) \ SeqRange(selected)
             IN /\ C26_Bounded(selected)
                /\ SeqRange(selected) \subseteq C26_Eligible(run'[r].discovery.combined)
                /\ (\E c \in Candidates : HostCount(selected, CandidateHost(c)) > host_cap)
                      => \A c \in left : HostCount(selected, CandidateHost(c)) >= host_cap
                /\ Len(selected) < DISCOVERY_MAX_CANDIDATES_PER_CONDITION => left = {}]_vars

\* a discovery has filled its selection past the host cap: three candidates
\* of one host are selected
C26_Witness ==
    \E r \in Runners :
       /\ run[r].stage = "discovery"
       /\ run[r].discovery # NoDiscovery
       /\ HostCount(run[r].discovery.selected, "ha") > host_cap

\* ------------------------------------------------------------------- C27
\* C27: no row is PENDING or PROCESSING with retry_count >= MAX_RETRIES, so
\* every row that is not COMPLETED or FAILED can still be claimed.
C27_NoOpenRowAtRetryCap ==
    \A url \in DOMAIN urls :
       urls[url].status \in {"PENDING", "PROCESSING"} => urls[url].retry_count < MAX_RETRIES

\* ------------------------------------------------------------------- C28
\* C28: once a row is COMPLETED, no step of a worker (claim, upsert, complete,
\* handle_failure) changes its status or raises its retry_count; the passes
\* of init_db at the start of a run are not worker steps.
C28_CompletedIsTerminal ==
    [][\A url \in DOMAIN urls :
          (/\ urls[url].status = "COMPLETED"
           /\ url \in DOMAIN urls'
           /\ \A r \in Runners : ~(pc[r] = "off" /\ pc'[r] = "map"))
             => /\ urls'[url].status = "COMPLETED"
                /\ urls'[url].retry_count <= urls[url].retry_count]_vars

\* ------------------------------------------------------------------- C29
\* One process, stopped and started again, under the registry with every
\* source enabled, with the second source disabled, or with none enabled.
\* It maps the first thread for "s1" and the second thread for "s2" and,
\* with a higher score, for the discovered source; every fetch is accepted,
\* so that a row is FAILED only through a pass of init_db.
NextDisabled ==
    \/ \E c \in {Permissive, SecondDisabled, AllDisabled} :
          \E order \in Orders(DOMAIN urls) : Start(1, c, order)
    \/ AddUrlsCall(1, "s1", {Item(TKey, MIN_RELEVANCE_SCORE)})
    \/ AddUrlsCall(1, "s2", {Item(UKey, MIN_RELEVANCE_SCORE)})
    \/ AddUrlsCall(1, "d1", {Item(UKey, MaxPriority)})
    \/ \E item \in todo[1] : UpsertRead(1, item)
    \/ UpsertWrite(1)
    \/ MapDone(1)
    \/ ClaimCall(1, 1)
    \/ ClaimBegin(1)
    \/ \E s \in Selections(urls, now, lim[1]) : ClaimSelect(1, s)
    \/ ClaimCommit(1)
    \/ \E url \in held[1] : Fetch(1, url, "good")
    \/ Crash(1)

SpecDisabled == Init /\ [][NextDisabled]_vars

\* C29: when a run opens the database and some configured source is
\* enabled, every row whose source_name is not an enabled configured source
\* (a disabled one, or a discovered one) ends FAILED with retry_count =
\* MAX_RETRIES, whatever its status was, and its cached document is moved
\* away; every row of an enabled configured source, and its document, is as
\* it was; and when no configured source is enabled nothing changes.
C29_DisabledSourcesForcedFailed ==
    [][\A r \in Runners :
          (pc[r] = "off" /\ pc'[r] = "map") =>
             LET enabled == EnabledNames(cfg'[r])
             IN /\ DOMAIN urls' = DOMAIN urls
                /\ enabled = {} => (urls' = urls /\ cache' = cache)
                /\ enabled # {} =>
                      \A url \in DOMAIN urls :
                         IF urls[url].source_name \in enabled
                         THEN /\ urls'[url] = urls[url]
                              /\ url \in DOMAIN cache =>
                                    (url \in DOMAIN cache' /\ cache'[url] = cache[url])
                         ELSE /\ urls'[url].status = "FAILED"
                              /\ urls'[url].retry_count = MAX_RETRIES
                              /\ url \notin DOMAIN cache']_vars

\* a run was started with the second source disabled: the second thread's
\* row, owned by the discovered source, is FAILED at the cap and has no
\* cached document, while the first thread's row is COMPLETED with its
\* document in the cache
C29_Witness ==
    /\ cfg[1] = SecondDisabled
    /\ UKey \in DOMAIN urls
    /\ urls[UKey].source_name = "d1"
    /\ urls[UKey].status = "FAILED" /\ urls[UKey].retry_count = MAX_RETRIES
    /\ UKey \notin DOMAIN cache
    /\ TKey \in DOMAIN urls
    /\ urls[TKey].status = "COMPLETED"
    /\ TKey \in DOMAIN cache

\* ------------------------------------------------- the scrape phase alone
\* One process runs main again and again and is never killed: init_db, the
\* map phase of source "s1" (which finds the first thread, or a deep link of
\* it that add_urls_to_db is handed as .../post-5, or raises and ends the
\* run), then scrape_phase until get_pending_chunk returns nothing.  Every
\* process_chunk call returns: the fetch is accepted or handle_failure runs.
NextScrape ==
    \/ Tick
    \/ \E order \in Orders(DOMAIN urls) : Start(1, Permissive, order)
    \/ \E results \in QueryResults, fallback \in FallbackOutcomes :
          \/ MapSingleSource(1, "s1", results, fallback, {Item(TKey, MIN_RELEVANCE_SCORE)})
          \/ MapSingleSource(1, "s1", results, fallback, {Item(TQKey, MIN_RELEVANCE_SCORE)})
    \/ \E item \in todo[1] : UpsertRead(1, item)
    \/ UpsertWrite(1)
    \/ MapDone(1)
    \/ \E n \in 1..MaxChunk : ClaimCall(1, n)
    \/ ClaimBegin(1)
    \/ \E s \in Selections(urls, now, lim[1]) : ClaimSelect(1, s)
    \/ ClaimCommit(1)
    \/ \E url \in held[1], doc \in {"good", "bad"} : Fetch(1, url, doc)
    \/ \E url \in DOMAIN hf[1] : HandleFailureWrite(1, url)

SpecScrape == Init /\ [][NextScrape]_vars

\* the same runs with the first thread as the only link mapped and batches
\* of one; the scheduler runs the process as long as it has a step to take
NextScrapeFirst ==
    \/ Tick
    \/ \E order \in Orders(DOMAIN urls) : Start(1, Permissive, order)
    \/ AddUrlsCall(1, "s1", {Item(TKey, MIN_RELEVANCE_SCORE)})
    \/ \E item \in todo[1] : UpsertRead(1, item)
    \/ UpsertWrite(1)
    \/ MapDone(1)
    \/ ClaimCall(1, 1)
    \/ ClaimBegin(1)
    \/ \E s \in Selections(urls, now, lim[1]) : ClaimSelect(1, s)
    \/ ClaimCommit(1)
    \/ \E url \in held[1], doc \in {"good", "bad"} : Fetch(1, url, doc)
    \/ \E url \in DOMAIN hf[1] : HandleFailureWrite(1, url)

SpecScrapeFair == Init /\ [][NextScrapeFirst]_vars /\ WF_vars(NextScrapeFirst)

\* get_pending_chunk has returned the empty list: scrape_phase leaves its loop
C30_ScrapePhaseExits(r) ==
    /\ pc[r] = "selected"
    /\ sel[r] = <<>>
    /\ pc'[r] = "off"

\* C30: with a single runner, no concurrent upserts and every process_chunk
\* call returning, when scrape_phase leaves its claim loop every row is
\* COMPLETED or FAILED: no row is left PENDING or PROCESSING.
C30_ExitLeavesNoOpenRow ==
    [][\A r \in Runners :
          C30_ScrapePhaseExits(r) =>
             \A url \in DOMAIN urls' : urls'[url].status \in {"COMPLETED", "FAILED"}]_vars

\* C30, the claim loop: a run that has entered scrape_phase leaves it
C30_ClaimLoopEnds == (pc[1] = "idle") ~> (pc[1] = "off")

\* C30, the claims: a row is claimed with retry_count below MAX_RETRIES, and
\* what process_chunk does with a claimed row is to complete it or to add
\* one to its retry_count
C30_ClaimsAreCounted ==
    [][\A url \in DOMAIN urls \cap DOMAIN urls' :
          /\ (urls[url].status # "PROCESSING" /\ urls'[url].status = "PROCESSING")
                => urls[url].retry_count < MAX_RETRIES
          /\ (urls[url].status = "PROCESSING" /\ urls'[url].status # "PROCESSING"
              /\ pc[1] = "work")
                => \/ urls'[url].status = "COMPLETED"
                   \/ urls'[url].retry_count = urls[url].retry_count + 1]_vars

\* scrape_phase has ended and the first thread's row is PENDING at the cap
C30_PendingAtCapAfterExit ==
    /\ pc[1] = "off"
    /\ run[1].error = "none"
    /\ TKey \in DOMAIN urls
    /\ urls[TKey].status = "PENDING"
    /\ urls[TKey].retry_count = MAX_RETRIES

====
